---- MODULE Spec2Model ----
(***************************************************************************)
(* The stacking dark-chess rules engine (gameEngine.ts, the engine with    *)
(* resolution modes and chain captures): applyAction, getLegalActions and  *)
(* their helpers, as a state machine whose steps are applyAction calls.    *)
(* The board of the source is 4 x 8 with a 32 piece deck; the model plays  *)
(* the same rules on a Rows x Cols board with a deck that fills it.        *)
(***************************************************************************)
EXTENDS Integers, Sequences, FiniteSets, TLC

\* ---------------------------------------------------------------- bounds
Rows == 2
Cols == 3
\* applyAction is explored while turnCount < MaxTurns
MaxTurns == 7
\* largest deployCount the callers try
MaxDeploy == 2
\* longest retrievePieceIds list the callers try
MaxRetrieve == 2

\* ---------------------------------------------------------------- types.ts
RED == "RED"
BLACK == "BLACK"
UNKNOWN == "UNKNOWN"

GENERAL == "GENERAL"
ADVISOR == "ADVISOR"
ELEPHANT == "ELEPHANT"
CHARIOT == "CHARIOT"
HORSE == "HORSE"
CANNON == "CANNON"
SOLDIER == "SOLDIER"
PieceType == {GENERAL, ADVISOR, ELEPHANT, CHARIOT, HORSE, CANNON, SOLDIER}

FLIP == "FLIP"
MOVE == "MOVE"
DEPLOY == "DEPLOY"
RETRIEVE == "RETRIEVE"
PASS == "PASS"

TO_HAND == "TO_HAND"
STACK_IF_POSSIBLE == "STACK_IF_POSSIBLE"

\* null for object-valued fields (a board cell, pendingChainCapture, lastAction)
Null == [isNull |-> TRUE]
\* a field of an action object that is absent
Undefined == [isUndefined |-> TRUE]
\* an absent string field of an action (captureResolution, deployType)
UndefinedStr == "undefined"
\* error: string | null
NoError == "null"
\* winner: number | null, as a sequence of at most one player index
NoWinner == << >>

PIECE_RANKS ==
  [t \in PieceType |->
     CASE t = GENERAL -> 6
       [] t = ADVISOR -> 5
       [] t = ELEPHANT -> 4
       [] t = CHARIOT -> 3
       [] t = HORSE -> 2
       [] t = CANNON -> 1
       [] t = SOLDIER -> 0]

\* STACK_LIMITS, but the Soldier entry lost a digit
STACK_LIMITS_SoldierOne ==
  [t \in PieceType |->
     CASE t = SOLDIER -> 1
       [] t = GENERAL -> 2
       [] OTHER -> 6]

STACK_LIMITS ==
  [t \in PieceType |->
     CASE t = SOLDIER -> 12
       [] t = GENERAL -> 2
       [] OTHER -> 6]

Location == [row : 0 .. (Rows - 1), col : 0 .. (Cols - 1)]

Loc(r, c) == [row |-> r, col |-> c]

\* ---------------------------------------------------------------- helpers
Abs(n) == IF n < 0 THEN 0 - n ELSE n

MinOf(S) == CHOOSE m \in S : \A n \in S : m <= n

\* the member of a one-element set
Only(S) == CHOOSE x \in S : TRUE

isValidCoordinate(loc) ==
  loc.row >= 0 /\ loc.row < Rows /\ loc.col >= 0 /\ loc.col < Cols

getStackWeight(stack) == IF stack = Null THEN 0 ELSE Len(stack.pieces)

\* getStackBaseType, but reading the type of the top piece
getStackBaseTypeOfTop(pieces) == pieces[Len(pieces)].type

\* the type of the first non-General piece from the bottom, else General
getStackBaseType(pieces) ==
  LET nonGeneral == {i \in 1 .. Len(pieces) : pieces[i].type # GENERAL}
  IN IF nonGeneral = {} THEN GENERAL ELSE pieces[MinOf(nonGeneral)].type

getTopPiece(stack) ==
  IF stack = Null \/ Len(stack.pieces) = 0 THEN Null
  ELSE stack.pieces[Len(stack.pieces)]

\* canStackOn, but the limit is that of the target's base type before merging
canStackOnOldBaseLimit(targetPieces, incomingPieces, checkColor) ==
  IF Len(targetPieces) = 0 THEN [valid |-> TRUE, reason |-> UndefinedStr]
  ELSE
    LET topTarget == targetPieces[Len(targetPieces)]
        topIncoming == incomingPieces[Len(incomingPieces)]
        baseType == getStackBaseType(targetPieces)
        bad == {i \in 1 .. Len(incomingPieces) :
                  ~(incomingPieces[i].type = baseType
                    \/ incomingPieces[i].type = GENERAL)}
        combined == targetPieces \o incomingPieces
        newBase == getStackBaseType(combined)
        limit == STACK_LIMITS[baseType]
    IN IF checkColor /\ topTarget.color # topIncoming.color
         THEN [valid |-> FALSE, reason |-> "Color mismatch"]
       ELSE IF baseType # GENERAL /\ bad # {}
         THEN [valid |-> FALSE,
               reason |-> "Type mismatch. Stack is " \o baseType
                          \o ", cannot add "
                          \o incomingPieces[MinOf(bad)].type]
       ELSE IF Len(combined) > limit
         THEN [valid |-> FALSE,
               reason |-> "Stack limit exceeded. Type " \o newBase
                          \o " max " \o ToString(limit)
                          \o ", got " \o ToString(Len(combined))]
       ELSE [valid |-> TRUE, reason |-> UndefinedStr]

\* canStackOn, but without the type compatibility check
canStackOnAnyType(targetPieces, incomingPieces, checkColor) ==
  IF Len(targetPieces) = 0 THEN [valid |-> TRUE, reason |-> UndefinedStr]
  ELSE
    LET topTarget == targetPieces[Len(targetPieces)]
        topIncoming == incomingPieces[Len(incomingPieces)]
        baseType == getStackBaseType(targetPieces)
        bad == {i \in 1 .. Len(incomingPieces) :
                  ~(incomingPieces[i].type = baseType
                    \/ incomingPieces[i].type = GENERAL)}
        combined == targetPieces \o incomingPieces
        newBase == getStackBaseType(combined)
        limit == STACK_LIMITS[newBase]
    IN IF checkColor /\ topTarget.color # topIncoming.color
         THEN [valid |-> FALSE, reason |-> "Color mismatch"]
       ELSE IF Len(combined) > limit
         THEN [valid |-> FALSE,
               reason |-> "Stack limit exceeded. Type " \o newBase
                          \o " max " \o ToString(limit)
                          \o ", got " \o ToString(Len(combined))]
       ELSE [valid |-> TRUE, reason |-> UndefinedStr]

canStackOn(targetPieces, incomingPieces, checkColor) ==
  IF Len(targetPieces) = 0 THEN [valid |-> TRUE, reason |-> UndefinedStr]
  ELSE
    LET topTarget == targetPieces[Len(targetPieces)]
        topIncoming == incomingPieces[Len(incomingPieces)]
        baseType == getStackBaseType(targetPieces)
        bad == {i \in 1 .. Len(incomingPieces) :
                  ~(incomingPieces[i].type = baseType
                    \/ incomingPieces[i].type = GENERAL)}
        combined == targetPieces \o incomingPieces
        newBase == getStackBaseType(combined)
        limit == STACK_LIMITS[newBase]
    IN IF checkColor /\ topTarget.color # topIncoming.color
         THEN [valid |-> FALSE, reason |-> "Color mismatch"]
       ELSE IF baseType # GENERAL /\ bad # {}
         THEN [valid |-> FALSE,
               reason |-> "Type mismatch. Stack is " \o baseType
                          \o ", cannot add "
                          \o incomingPieces[MinOf(bad)].type]
       ELSE IF Len(combined) > limit
         THEN [valid |-> FALSE,
               reason |-> "Stack limit exceeded. Type " \o newBase
                          \o " max " \o ToString(limit)
                          \o ", got " \o ToString(Len(combined))]
       ELSE [valid |-> TRUE, reason |-> UndefinedStr]

countPiecesBetween(board, from, to) ==
  IF from.row = to.row THEN
    LET lo == IF from.col < to.col THEN from.col ELSE to.col
        hi == IF from.col < to.col THEN to.col ELSE from.col
    IN Cardinality({c \in (lo + 1) .. (hi - 1) : board[Loc(from.row, c)] # Null})
  ELSE IF from.col = to.col THEN
    LET lo == IF from.row < to.row THEN from.row ELSE to.row
        hi == IF from.row < to.row THEN to.row ELSE from.row
    IN Cardinality({r \in (lo + 1) .. (hi - 1) : board[Loc(r, from.col)] # Null})
  ELSE 0

getMovePatternDetails(board, from, to, baseType) ==
  LET dr == to.row - from.row
      dc == to.col - from.col
      isLine == (from.row = to.row \/ from.col = to.col)
      dist == Abs(dr) + Abs(dc)
      between == countPiecesBetween(board, from, to)
  IN CASE baseType = HORSE ->
            [valid |-> (Abs(dr) = 1 /\ Abs(dc) = 1),
             isCannonCapture |-> FALSE, screens |-> 0]
       [] baseType = CHARIOT ->
            IF isLine
              THEN [valid |-> (between = 0), isCannonCapture |-> FALSE,
                    screens |-> between]
              ELSE [valid |-> FALSE, isCannonCapture |-> FALSE, screens |-> 0]
       [] baseType = CANNON ->
            IF isLine
              THEN [valid |-> (between = 0 \/ between = 1),
                    isCannonCapture |-> (between = 1),
                    screens |-> between]
              ELSE [valid |-> FALSE, isCannonCapture |-> FALSE, screens |-> 0]
       [] OTHER ->
            [valid |-> (dist = 1), isCannonCapture |-> FALSE, screens |-> 0]

\* canPieceCaptureTarget, but a rank must be strictly higher to capture
canPieceCaptureTargetStrictRank(board, from, to, attackerStack, defenderStack) ==
  LET baseType == getStackBaseType(attackerStack.pieces)
      pattern == getMovePatternDetails(board, from, to, baseType)
      atkTop == getTopPiece(attackerStack)
      defTop == getTopPiece(defenderStack)
      atkWeight == getStackWeight(attackerStack)
      defWeight == getStackWeight(defenderStack)
      atkRank == PIECE_RANKS[atkTop.type]
      defRank == PIECE_RANKS[defTop.type]
  IN IF ~pattern.valid THEN FALSE
     ELSE IF atkTop.color = defTop.color THEN TRUE
     ELSE IF atkWeight > defWeight THEN TRUE
     ELSE IF atkWeight < defWeight THEN FALSE
     ELSE IF baseType = CANNON /\ pattern.screens = 1 THEN TRUE
     ELSE IF atkTop.type = SOLDIER /\ defTop.type = GENERAL THEN TRUE
     ELSE IF atkTop.type = GENERAL /\ defTop.type = SOLDIER THEN FALSE
     ELSE atkRank > defRank

\* canPieceCaptureTarget, but without the Cannon jump exception
canPieceCaptureTargetNoJumpRule(board, from, to, attackerStack, defenderStack) ==
  LET baseType == getStackBaseType(attackerStack.pieces)
      pattern == getMovePatternDetails(board, from, to, baseType)
      atkTop == getTopPiece(attackerStack)
      defTop == getTopPiece(defenderStack)
      atkWeight == getStackWeight(attackerStack)
      defWeight == getStackWeight(defenderStack)
      atkRank == PIECE_RANKS[atkTop.type]
      defRank == PIECE_RANKS[defTop.type]
  IN IF ~pattern.valid THEN FALSE
     ELSE IF atkTop.color = defTop.color THEN TRUE
     ELSE IF atkWeight > defWeight THEN TRUE
     ELSE IF atkWeight < defWeight THEN FALSE
     ELSE IF atkTop.type = SOLDIER /\ defTop.type = GENERAL THEN TRUE
     ELSE IF atkTop.type = GENERAL /\ defTop.type = SOLDIER THEN FALSE
     ELSE atkRank >= defRank

\* canPieceCaptureTarget, but the exceptions are tried before the weights
canPieceCaptureTargetExceptionsFirst(board, from, to, attackerStack, defenderStack) ==
  LET baseType == getStackBaseType(attackerStack.pieces)
      pattern == getMovePatternDetails(board, from, to, baseType)
      atkTop == getTopPiece(attackerStack)
      defTop == getTopPiece(defenderStack)
      atkWeight == getStackWeight(attackerStack)
      defWeight == getStackWeight(defenderStack)
      atkRank == PIECE_RANKS[atkTop.type]
      defRank == PIECE_RANKS[defTop.type]
  IN IF ~pattern.valid THEN FALSE
     ELSE IF atkTop.color = defTop.color THEN TRUE
     ELSE IF baseType = CANNON /\ pattern.screens = 1 THEN TRUE
     ELSE IF atkTop.type = SOLDIER /\ defTop.type = GENERAL THEN TRUE
     ELSE IF atkTop.type = GENERAL /\ defTop.type = SOLDIER THEN FALSE
     ELSE IF atkWeight > defWeight THEN TRUE
     ELSE IF atkWeight < defWeight THEN FALSE
     ELSE atkRank >= defRank

canPieceCaptureTarget(board, from, to, attackerStack, defenderStack) ==
  LET baseType == getStackBaseType(attackerStack.pieces)
      pattern == getMovePatternDetails(board, from, to, baseType)
      atkTop == getTopPiece(attackerStack)
      defTop == getTopPiece(defenderStack)
      atkWeight == getStackWeight(attackerStack)
      defWeight == getStackWeight(defenderStack)
      atkRank == PIECE_RANKS[atkTop.type]
      defRank == PIECE_RANKS[defTop.type]
  IN IF ~pattern.valid THEN FALSE
     ELSE IF atkTop.color = defTop.color THEN TRUE
     ELSE IF atkWeight > defWeight THEN TRUE
     ELSE IF atkWeight < defWeight THEN FALSE
     ELSE IF baseType = CANNON /\ pattern.screens = 1 THEN TRUE
     ELSE IF atkTop.type = SOLDIER /\ defTop.type = GENERAL THEN TRUE
     ELSE IF atkTop.type = GENERAL /\ defTop.type = SOLDIER THEN FALSE
     ELSE atkRank >= defRank

\* hasChainOptions, but scanning enemy stacks only
hasChainOptionsEnemyOnly(gameState, loc, playerColor) ==
  LET board == gameState.board
      stack == board[loc]
  IN IF stack = Null THEN FALSE
     ELSE \E t \in Location :
            /\ t # loc
            /\ board[t] # Null
            /\ getTopPiece(board[t]) # Null
            /\ getTopPiece(board[t]).faceUp
            /\ getTopPiece(board[t]).color # playerColor
            /\ canPieceCaptureTarget(board, loc, t, stack, board[t])

hasChainOptions(gameState, loc, playerColor) ==
  LET board == gameState.board
      stack == board[loc]
  IN IF stack = Null THEN FALSE
     ELSE \E t \in Location :
            /\ t # loc
            /\ board[t] # Null
            /\ getTopPiece(board[t]) # Null
            /\ getTopPiece(board[t]).faceUp
            /\ canPieceCaptureTarget(board, loc, t, stack, board[t])

\* ---------------------------------------------------------------- actions
\* a PlayerAction with every optional field absent
BaseAction(type, playerId) ==
  [type |-> type, playerId |-> playerId,
   flipLocation |-> Undefined,
   from |-> Undefined, to |-> Undefined, captureResolution |-> UndefinedStr,
   deployType |-> UndefinedStr, deployCount |-> 0, deployTo |-> Undefined,
   retrieveFrom |-> Undefined, retrievePieceIds |-> << >>]

FlipAction(p, loc) == [BaseAction(FLIP, p) EXCEPT !.flipLocation = loc]

MoveAction(p, from, to, res) ==
  [BaseAction(MOVE, p) EXCEPT !.from = from, !.to = to, !.captureResolution = res]

DeployAction(p, type, count, to) ==
  [BaseAction(DEPLOY, p) EXCEPT !.deployType = type, !.deployCount = count,
                                !.deployTo = to]

RetrieveAction(p, from, ids) ==
  [BaseAction(RETRIEVE, p) EXCEPT !.retrieveFrom = from, !.retrievePieceIds = ids]

PassAction(p) == BaseAction(PASS, p)

\* getLegalActions, but a chain is offered enemy targets only
getLegalActionsChainEnemyOnly(state, playerIndex) ==
  LET player == state.players[playerIndex]
      board == state.board
      handTypes == {player.hand.pieces[i].type : i \in 1 .. Len(player.hand.pieces)}
  IN IF state.pendingChainCapture # Null THEN
       LET loc == state.pendingChainCapture
           stack == board[loc]
       IN {PassAction(playerIndex)} \cup
          (IF stack = Null THEN {}
           ELSE {MoveAction(playerIndex, loc, t, TO_HAND) :
                   t \in {t \in Location :
                            /\ t # loc
                            /\ board[t] # Null
                            /\ getTopPiece(board[t]) # Null
                            /\ getTopPiece(board[t]).faceUp
                            /\ getTopPiece(board[t]).color # player.color
                            /\ canPieceCaptureTarget(board, loc, t, stack, board[t])}})
     ELSE
       LET deploys ==
             {DeployAction(playerIndex, ty, 1, l) :
                ty \in handTypes, l \in {l \in Location : board[l] = Null}}
           flips ==
             {FlipAction(playerIndex, l) :
                l \in {l \in Location :
                         board[l] # Null /\ ~getTopPiece(board[l]).faceUp}}
           friendly ==
             {l \in Location :
                /\ board[l] # Null
                /\ getTopPiece(board[l]).faceUp
                /\ state.colorsAssigned
                /\ getTopPiece(board[l]).color = player.color}
           retrieves ==
             {RetrieveAction(playerIndex, l, <<getTopPiece(board[l]).id>>) :
                l \in {l \in friendly : Len(board[l].pieces) > 1}}
           movesFrom(l) ==
             LET stack == board[l]
                 baseType == getStackBaseType(stack.pieces)
                 reach == {t \in Location :
                             t # l /\ getMovePatternDetails(board, l, t, baseType).valid}
                 toEmpty ==
                   {MoveAction(playerIndex, l, t, UndefinedStr) :
                      t \in {t \in reach :
                               /\ board[t] = Null
                               /\ ~(baseType = CANNON
                                    /\ getMovePatternDetails(board, l, t, baseType).screens > 0)}}
                 shown == {t \in reach :
                             board[t] # Null /\ getTopPiece(board[t]).faceUp}
                 own == {t \in shown : getTopPiece(board[t]).color = player.color}
                 merge ==
                   {MoveAction(playerIndex, l, t, STACK_IF_POSSIBLE) :
                      t \in {t \in own :
                               canStackOn(board[t].pieces, stack.pieces, TRUE).valid}}
                 retrieveFriend ==
                   {MoveAction(playerIndex, l, t, TO_HAND) : t \in own}
                 enemy == {t \in shown \ own :
                             canPieceCaptureTarget(board, l, t, stack, board[t])}
                 capture ==
                   {MoveAction(playerIndex, l, t, TO_HAND) : t \in enemy}
                 captureStack ==
                   {MoveAction(playerIndex, l, t, STACK_IF_POSSIBLE) :
                      t \in {t \in enemy :
                               canStackOn(board[t].pieces, stack.pieces, FALSE).valid}}
             IN toEmpty \cup merge \cup retrieveFriend \cup capture \cup captureStack
       IN deploys \cup flips \cup retrieves \cup UNION {movesFrom(l) : l \in friendly}

\* getLegalActions, but RETRIEVE is offered on single-piece stacks too
getLegalActionsRetrieveAny(state, playerIndex) ==
  LET player == state.players[playerIndex]
      board == state.board
      handTypes == {player.hand.pieces[i].type : i \in 1 .. Len(player.hand.pieces)}
  IN IF state.pendingChainCapture # Null THEN
       LET loc == state.pendingChainCapture
           stack == board[loc]
       IN {PassAction(playerIndex)} \cup
          (IF stack = Null THEN {}
           ELSE {MoveAction(playerIndex, loc, t, TO_HAND) :
                   t \in {t \in Location :
                            /\ t # loc
                            /\ board[t] # Null
                            /\ getTopPiece(board[t]) # Null
                            /\ getTopPiece(board[t]).faceUp
                            /\ canPieceCaptureTarget(board, loc, t, stack, board[t])}})
     ELSE
       LET deploys ==
             {DeployAction(playerIndex, ty, 1, l) :
                ty \in handTypes, l \in {l \in Location : board[l] = Null}}
           flips ==
             {FlipAction(playerIndex, l) :
                l \in {l \in Location :
                         board[l] # Null /\ ~getTopPiece(board[l]).faceUp}}
           friendly ==
             {l \in Location :
                /\ board[l] # Null
                /\ getTopPiece(board[l]).faceUp
                /\ state.colorsAssigned
                /\ getTopPiece(board[l]).color = player.color}
           retrieves ==
             {RetrieveAction(playerIndex, l, <<getTopPiece(board[l]).id>>) :
                l \in {l \in friendly : Len(board[l].pieces) > 0}}
           movesFrom(l) ==
             LET stack == board[l]
                 baseType == getStackBaseType(stack.pieces)
                 reach == {t \in Location :
                             t # l /\ getMovePatternDetails(board, l, t, baseType).valid}
                 toEmpty ==
                   {MoveAction(playerIndex, l, t, UndefinedStr) :
                      t \in {t \in reach :
                               /\ board[t] = Null
                               /\ ~(baseType = CANNON
                                    /\ getMovePatternDetails(board, l, t, baseType).screens > 0)}}
                 shown == {t \in reach :
                             board[t] # Null /\ getTopPiece(board[t]).faceUp}
                 own == {t \in shown : getTopPiece(board[t]).color = player.color}
                 merge ==
                   {MoveAction(playerIndex, l, t, STACK_IF_POSSIBLE) :
                      t \in {t \in own :
                               canStackOn(board[t].pieces, stack.pieces, TRUE).valid}}
                 retrieveFriend ==
                   {MoveAction(playerIndex, l, t, TO_HAND) : t \in own}
                 enemy == {t \in shown \ own :
                             canPieceCaptureTarget(board, l, t, stack, board[t])}
                 capture ==
                   {MoveAction(playerIndex, l, t, TO_HAND) : t \in enemy}
                 captureStack ==
                   {MoveAction(playerIndex, l, t, STACK_IF_POSSIBLE) :
                      t \in {t \in enemy :
                               canStackOn(board[t].pieces, stack.pieces, FALSE).valid}}
             IN toEmpty \cup merge \cup retrieveFriend \cup capture \cup captureStack
       IN deploys \cup flips \cup retrieves \cup UNION {movesFrom(l) : l \in friendly}

\* ---------------------------------------------------------------- getLegalActions
\* the list the source returns, as the set of its members
getLegalActions(state, playerIndex) ==
  LET player == state.players[playerIndex]
      board == state.board
      handTypes == {player.hand.pieces[i].type : i \in 1 .. Len(player.hand.pieces)}
  IN IF state.pendingChainCapture # Null THEN
       LET loc == state.pendingChainCapture
           stack == board[loc]
       IN {PassAction(playerIndex)} \cup
          (IF stack = Null THEN {}
           ELSE {MoveAction(playerIndex, loc, t, TO_HAND) :
                   t \in {t \in Location :
                            /\ t # loc
                            /\ board[t] # Null
                            /\ getTopPiece(board[t]) # Null
                            /\ getTopPiece(board[t]).faceUp
                            /\ canPieceCaptureTarget(board, loc, t, stack, board[t])}})
     ELSE
       LET deploys ==
             {DeployAction(playerIndex, ty, 1, l) :
                ty \in handTypes, l \in {l \in Location : board[l] = Null}}
           flips ==
             {FlipAction(playerIndex, l) :
                l \in {l \in Location :
                         board[l] # Null /\ ~getTopPiece(board[l]).faceUp}}
           friendly ==
             {l \in Location :
                /\ board[l] # Null
                /\ getTopPiece(board[l]).faceUp
                /\ state.colorsAssigned
                /\ getTopPiece(board[l]).color = player.color}
           retrieves ==
             {RetrieveAction(playerIndex, l, <<getTopPiece(board[l]).id>>) :
                l \in {l \in friendly : Len(board[l].pieces) > 1}}
           movesFrom(l) ==
             LET stack == board[l]
                 baseType == getStackBaseType(stack.pieces)
                 reach == {t \in Location :
                             t # l /\ getMovePatternDetails(board, l, t, baseType).valid}
                 toEmpty ==
                   {MoveAction(playerIndex, l, t, UndefinedStr) :
                      t \in {t \in reach :
                               /\ board[t] = Null
                               /\ ~(baseType = CANNON
                                    /\ getMovePatternDetails(board, l, t, baseType).screens > 0)}}
                 shown == {t \in reach :
                             board[t] # Null /\ getTopPiece(board[t]).faceUp}
                 own == {t \in shown : getTopPiece(board[t]).color = player.color}
                 merge ==
                   {MoveAction(playerIndex, l, t, STACK_IF_POSSIBLE) :
                      t \in {t \in own :
                               canStackOn(board[t].pieces, stack.pieces, TRUE).valid}}
                 retrieveFriend ==
                   {MoveAction(playerIndex, l, t, TO_HAND) : t \in own}
                 enemy == {t \in shown \ own :
                             canPieceCaptureTarget(board, l, t, stack, board[t])}
                 capture ==
                   {MoveAction(playerIndex, l, t, TO_HAND) : t \in enemy}
                 captureStack ==
                   {MoveAction(playerIndex, l, t, STACK_IF_POSSIBLE) :
                      t \in {t \in enemy :
                               canStackOn(board[t].pieces, stack.pieces, FALSE).valid}}
             IN toEmpty \cup merge \cup retrieveFriend \cup capture \cup captureStack
       IN deploys \cup flips \cup retrieves \cup UNION {movesFrom(l) : l \in friendly}

\* ---------------------------------------------------------------- applyAction
fail(state, msg) == [state EXCEPT !.error = msg]

\* Reading board[row][col] with a row the board does not have reads a
\* property of undefined: the call throws a TypeError and returns no state.
\* The model marks that outcome by TypeError in place of an error message;
\* the state the callers hold is the one they passed.
TypeError == "TypeError"

throw(state) == [state EXCEPT !.error = TypeError]

\* board[row][col] is undefined, without a throw, when only the column is
\* one the row does not have
NoSuchRow(loc) == loc.row < 0 \/ loc.row >= Rows

NoSuchCol(loc) == loc.col < 0 \/ loc.col >= Cols

\* ApplyFlip, but every flip hands out the colors again
ApplyFlipReassigns(newState, action) ==
  LET loc == action.flipLocation
      stack == newState.board[loc]
      n == Len(stack.pieces)
      top == stack.pieces[n]
      me == action.playerId
      other == 1 - action.playerId
      flipped == [newState EXCEPT !.board[loc].pieces[n].faceUp = TRUE]
      colored ==
        IF TRUE
          THEN [flipped EXCEPT
                  !.players[me].color = top.color,
                  !.players[other].color = IF top.color = RED THEN BLACK ELSE RED,
                  !.colorsAssigned = TRUE]
          ELSE flipped
  IN IF loc = Undefined THEN fail(newState, "Missing flip location")
     ELSE IF stack = Null \/ Len(stack.pieces) = 0 THEN fail(newState, "Empty cell")
     ELSE IF top.faceUp THEN fail(newState, "Already revealed")
     ELSE [colored EXCEPT !.activePlayerIndex = other, !.turnCount = @ + 1]

\* ResolveAction, but the player left to move is named the winner
ResolveActionWinnerToMove(resolved, action) ==
  LET newState == [resolved EXCEPT !.lastAction = action]
      nextPlayerIdx == newState.activePlayerIndex
      nextPlayerColor == newState.players[nextPlayerIdx].color
      occupied == {l \in Location : newState.board[l] # Null}
      allRevealed == \A l \in occupied : getTopPiece(newState.board[l]).faceUp
      hasPieceOnBoard ==
        \E l \in occupied :
          /\ getTopPiece(newState.board[l]).faceUp
          /\ getTopPiece(newState.board[l]).color = nextPlayerColor
      won == [newState EXCEPT !.isGameOver = TRUE,
                              !.winner = <<nextPlayerIdx>>]
  IN IF newState.pendingChainCapture # Null THEN newState
     ELSE IF ~newState.colorsAssigned THEN newState
     ELSE IF allRevealed /\ ~hasPieceOnBoard THEN won
     ELSE IF getLegalActions(newState, nextPlayerIdx) = {} THEN won
     ELSE newState

\* the part of applyAction after the switch: lastAction and win detection
ResolveAction(resolved, action) ==
  LET newState == [resolved EXCEPT !.lastAction = action]
      nextPlayerIdx == newState.activePlayerIndex
      nextPlayerColor == newState.players[nextPlayerIdx].color
      occupied == {l \in Location : newState.board[l] # Null}
      allRevealed == \A l \in occupied : getTopPiece(newState.board[l]).faceUp
      hasPieceOnBoard ==
        \E l \in occupied :
          /\ getTopPiece(newState.board[l]).faceUp
          /\ getTopPiece(newState.board[l]).color = nextPlayerColor
      won == [newState EXCEPT !.isGameOver = TRUE,
                              !.winner = <<1 - nextPlayerIdx>>]
  IN IF newState.pendingChainCapture # Null THEN newState
     ELSE IF ~newState.colorsAssigned THEN newState
     ELSE IF allRevealed /\ ~hasPieceOnBoard THEN won
     ELSE IF getLegalActions(newState, nextPlayerIdx) = {} THEN won
     ELSE newState

ApplyFlip(newState, action) ==
  LET loc == action.flipLocation
      stack == newState.board[loc]
      n == Len(stack.pieces)
      top == stack.pieces[n]
      me == action.playerId
      other == 1 - action.playerId
      flipped == [newState EXCEPT !.board[loc].pieces[n].faceUp = TRUE]
      colored ==
        IF ~newState.colorsAssigned
          THEN [flipped EXCEPT
                  !.players[me].color = top.color,
                  !.players[other].color = IF top.color = RED THEN BLACK ELSE RED,
                  !.colorsAssigned = TRUE]
          ELSE flipped
  IN IF loc = Undefined THEN fail(newState, "Missing flip location")
     ELSE IF NoSuchRow(loc) THEN throw(newState)
     ELSE IF NoSuchCol(loc) THEN fail(newState, "Empty cell")
     ELSE IF stack = Null \/ Len(stack.pieces) = 0 THEN fail(newState, "Empty cell")
     ELSE IF top.faceUp THEN fail(newState, "Already revealed")
     ELSE [colored EXCEPT !.activePlayerIndex = other, !.turnCount = @ + 1]

\* AfterMove, but entering a chain counts as a turn
AfterMoveCountsChain(moved, action, moveIsInteraction) ==
  LET to == action.to
      player == moved.players[action.playerId]
  IN IF moveIsInteraction /\ hasChainOptions(moved, to, player.color)
       THEN [moved EXCEPT !.pendingChainCapture = to, !.lastAction = action,
                          !.turnCount = @ + 1]
       ELSE [moved EXCEPT !.pendingChainCapture = Null,
                          !.activePlayerIndex = 1 - action.playerId,
                          !.turnCount = @ + 1]

\* AfterMove, but every interaction leaves a chain pending
AfterMoveAlwaysChains(moved, action, moveIsInteraction) ==
  LET to == action.to
      player == moved.players[action.playerId]
  IN IF moveIsInteraction
       THEN [moved EXCEPT !.pendingChainCapture = to, !.lastAction = action]
       ELSE [moved EXCEPT !.pendingChainCapture = Null,
                          !.activePlayerIndex = 1 - action.playerId,
                          !.turnCount = @ + 1]

\* AfterMove, but a move onto an empty cell may start a chain as well
AfterMoveChainsOnEmpty(moved, action, moveIsInteraction) ==
  LET to == action.to
      player == moved.players[action.playerId]
  IN IF hasChainOptions(moved, to, player.color)
       THEN [moved EXCEPT !.pendingChainCapture = to, !.lastAction = action]
       ELSE [moved EXCEPT !.pendingChainCapture = Null,
                          !.activePlayerIndex = 1 - action.playerId,
                          !.turnCount = @ + 1]

\* the post-move chain logic, on the board the move produced
AfterMove(moved, action, moveIsInteraction) ==
  LET to == action.to
      player == moved.players[action.playerId]
  IN IF moveIsInteraction /\ hasChainOptions(moved, to, player.color)
       THEN [moved EXCEPT !.pendingChainCapture = to, !.lastAction = action]
       ELSE [moved EXCEPT !.pendingChainCapture = Null,
                          !.activePlayerIndex = 1 - action.playerId,
                          !.turnCount = @ + 1]

\* MoveRejection, but a face-down piece on the destination is no obstacle
MoveRejectionHiddenTarget(newState, action) ==
  LET from == action.from
      to == action.to
      captureRes == IF action.captureResolution = UndefinedStr
                      THEN TO_HAND ELSE action.captureResolution
      player == newState.players[action.playerId]
      srcStack == newState.board[from]
      movingPiece == getTopPiece(srcStack)
      destStack == newState.board[to]
      baseType == getStackBaseType(srcStack.pieces)
      pattern == getMovePatternDetails(newState.board, from, to, baseType)
      topDest == getTopPiece(destStack)
      isFriendly == topDest.color = player.color
      cannotCapture ==
        ~canPieceCaptureTarget(newState.board, from, to, srcStack, destStack)
      stackCheck == canStackOn(destStack.pieces, srcStack.pieces, isFriendly)
  IN IF from = Undefined \/ to = Undefined THEN "Missing coords"
     ELSE IF ~isValidCoordinate(from) \/ ~isValidCoordinate(to)
       THEN "Invalid coords"
     ELSE IF from = to THEN "Cannot move to self"
     ELSE IF srcStack = Null THEN "No source"
     ELSE IF ~movingPiece.faceUp THEN "Cannot move hidden"
     ELSE IF newState.colorsAssigned /\ movingPiece.color # player.color
       THEN "Not your piece"
     ELSE IF ~pattern.valid THEN "Invalid move pattern for " \o baseType
     ELSE IF destStack = Null THEN
       IF newState.pendingChainCapture # Null
         THEN "Must capture/interact during chain"
       ELSE IF baseType = CANNON /\ pattern.screens > 0
         THEN "Cannon needs a target to jump"
       ELSE NoError
     ELSE IF captureRes = TO_HAND THEN
       IF ~isFriendly /\ cannotCapture
         THEN "Capture failed (Rank/Weight insufficient)"
       ELSE IF ~isFriendly /\ baseType = CANNON /\ pattern.screens > 1
         THEN "Invalid Cannon capture"
       ELSE NoError
     ELSE
       IF ~stackCheck.valid THEN "Cannot stack: " \o stackCheck.reason
       ELSE IF ~isFriendly /\ cannotCapture
         THEN "Capture failed (Rank/Weight insufficient)"
       ELSE IF ~isFriendly /\ baseType = CANNON /\ pattern.screens > 1
         THEN "Invalid Cannon capture"
       ELSE NoError

\* MoveRejection, but a chaining piece may step onto an empty cell
MoveRejectionChainToEmpty(newState, action) ==
  LET from == action.from
      to == action.to
      captureRes == IF action.captureResolution = UndefinedStr
                      THEN TO_HAND ELSE action.captureResolution
      player == newState.players[action.playerId]
      srcStack == newState.board[from]
      movingPiece == getTopPiece(srcStack)
      destStack == newState.board[to]
      baseType == getStackBaseType(srcStack.pieces)
      pattern == getMovePatternDetails(newState.board, from, to, baseType)
      topDest == getTopPiece(destStack)
      isFriendly == topDest.color = player.color
      cannotCapture ==
        ~canPieceCaptureTarget(newState.board, from, to, srcStack, destStack)
      stackCheck == canStackOn(destStack.pieces, srcStack.pieces, isFriendly)
  IN IF from = Undefined \/ to = Undefined THEN "Missing coords"
     ELSE IF ~isValidCoordinate(from) \/ ~isValidCoordinate(to)
       THEN "Invalid coords"
     ELSE IF from = to THEN "Cannot move to self"
     ELSE IF srcStack = Null THEN "No source"
     ELSE IF ~movingPiece.faceUp THEN "Cannot move hidden"
     ELSE IF newState.colorsAssigned /\ movingPiece.color # player.color
       THEN "Not your piece"
     ELSE IF ~pattern.valid THEN "Invalid move pattern for " \o baseType
     ELSE IF destStack = Null THEN
       IF baseType = CANNON /\ pattern.screens > 0
         THEN "Cannon needs a target to jump"
       ELSE NoError
     ELSE IF ~topDest.faceUp THEN "Cannot interact with hidden pieces"
     ELSE IF captureRes = TO_HAND THEN
       IF ~isFriendly /\ cannotCapture
         THEN "Capture failed (Rank/Weight insufficient)"
       ELSE IF ~isFriendly /\ baseType = CANNON /\ pattern.screens > 1
         THEN "Invalid Cannon capture"
       ELSE NoError
     ELSE
       IF ~stackCheck.valid THEN "Cannot stack: " \o stackCheck.reason
       ELSE IF ~isFriendly /\ cannotCapture
         THEN "Capture failed (Rank/Weight insufficient)"
       ELSE IF ~isFriendly /\ baseType = CANNON /\ pattern.screens > 1
         THEN "Invalid Cannon capture"
       ELSE NoError

\* MoveRejection, but a Cannon may jump its screen onto an empty cell
MoveRejectionCannonJumpsToEmpty(newState, action) ==
  LET from == action.from
      to == action.to
      captureRes == IF action.captureResolution = UndefinedStr
                      THEN TO_HAND ELSE action.captureResolution
      player == newState.players[action.playerId]
      srcStack == newState.board[from]
      movingPiece == getTopPiece(srcStack)
      destStack == newState.board[to]
      baseType == getStackBaseType(srcStack.pieces)
      pattern == getMovePatternDetails(newState.board, from, to, baseType)
      topDest == getTopPiece(destStack)
      isFriendly == topDest.color = player.color
      cannotCapture ==
        ~canPieceCaptureTarget(newState.board, from, to, srcStack, destStack)
      stackCheck == canStackOn(destStack.pieces, srcStack.pieces, isFriendly)
  IN IF from = Undefined \/ to = Undefined THEN "Missing coords"
     ELSE IF ~isValidCoordinate(from) \/ ~isValidCoordinate(to)
       THEN "Invalid coords"
     ELSE IF from = to THEN "Cannot move to self"
     ELSE IF srcStack = Null THEN "No source"
     ELSE IF ~movingPiece.faceUp THEN "Cannot move hidden"
     ELSE IF newState.colorsAssigned /\ movingPiece.color # player.color
       THEN "Not your piece"
     ELSE IF ~pattern.valid THEN "Invalid move pattern for " \o baseType
     ELSE IF destStack = Null THEN
       IF newState.pendingChainCapture # Null
         THEN "Must capture/interact during chain"
       ELSE NoError
     ELSE IF ~topDest.faceUp THEN "Cannot interact with hidden pieces"
     ELSE IF captureRes = TO_HAND THEN
       IF ~isFriendly /\ cannotCapture
         THEN "Capture failed (Rank/Weight insufficient)"
       ELSE IF ~isFriendly /\ baseType = CANNON /\ pattern.screens > 1
         THEN "Invalid Cannon capture"
       ELSE NoError
     ELSE
       IF ~stackCheck.valid THEN "Cannot stack: " \o stackCheck.reason
       ELSE IF ~isFriendly /\ cannotCapture
         THEN "Capture failed (Rank/Weight insufficient)"
       ELSE IF ~isFriendly /\ baseType = CANNON /\ pattern.screens > 1
         THEN "Invalid Cannon capture"
       ELSE NoError

\* MoveRejection, but a to-hand move onto a friendly stack is refused
MoveRejectionToHandEnemyOnly(newState, action) ==
  LET from == action.from
      to == action.to
      captureRes == IF action.captureResolution = UndefinedStr
                      THEN TO_HAND ELSE action.captureResolution
      player == newState.players[action.playerId]
      srcStack == newState.board[from]
      movingPiece == getTopPiece(srcStack)
      destStack == newState.board[to]
      baseType == getStackBaseType(srcStack.pieces)
      pattern == getMovePatternDetails(newState.board, from, to, baseType)
      topDest == getTopPiece(destStack)
      isFriendly == topDest.color = player.color
      cannotCapture ==
        ~canPieceCaptureTarget(newState.board, from, to, srcStack, destStack)
      stackCheck == canStackOn(destStack.pieces, srcStack.pieces, isFriendly)
  IN IF from = Undefined \/ to = Undefined THEN "Missing coords"
     ELSE IF ~isValidCoordinate(from) \/ ~isValidCoordinate(to)
       THEN "Invalid coords"
     ELSE IF from = to THEN "Cannot move to self"
     ELSE IF srcStack = Null THEN "No source"
     ELSE IF ~movingPiece.faceUp THEN "Cannot move hidden"
     ELSE IF newState.colorsAssigned /\ movingPiece.color # player.color
       THEN "Not your piece"
     ELSE IF ~pattern.valid THEN "Invalid move pattern for " \o baseType
     ELSE IF destStack = Null THEN
       IF newState.pendingChainCapture # Null
         THEN "Must capture/interact during chain"
       ELSE IF baseType = CANNON /\ pattern.screens > 0
         THEN "Cannon needs a target to jump"
       ELSE NoError
     ELSE IF ~topDest.faceUp THEN "Cannot interact with hidden pieces"
     ELSE IF captureRes = TO_HAND THEN
       IF isFriendly THEN "Cannot capture own piece"
       ELSE IF ~isFriendly /\ cannotCapture
         THEN "Capture failed (Rank/Weight insufficient)"
       ELSE IF ~isFriendly /\ baseType = CANNON /\ pattern.screens > 1
         THEN "Invalid Cannon capture"
       ELSE NoError
     ELSE
       IF ~stackCheck.valid THEN "Cannot stack: " \o stackCheck.reason
       ELSE IF ~isFriendly /\ cannotCapture
         THEN "Capture failed (Rank/Weight insufficient)"
       ELSE IF ~isFriendly /\ baseType = CANNON /\ pattern.screens > 1
         THEN "Invalid Cannon capture"
       ELSE NoError

\* MoveRejection, but a face-down piece may move
MoveRejectionHiddenMover(newState, action) ==
  LET from == action.from
      to == action.to
      captureRes == IF action.captureResolution = UndefinedStr
                      THEN TO_HAND ELSE action.captureResolution
      player == newState.players[action.playerId]
      srcStack == newState.board[from]
      movingPiece == getTopPiece(srcStack)
      destStack == newState.board[to]
      baseType == getStackBaseType(srcStack.pieces)
      pattern == getMovePatternDetails(newState.board, from, to, baseType)
      topDest == getTopPiece(destStack)
      isFriendly == topDest.color = player.color
      cannotCapture ==
        ~canPieceCaptureTarget(newState.board, from, to, srcStack, destStack)
      stackCheck == canStackOn(destStack.pieces, srcStack.pieces, isFriendly)
  IN IF from = Undefined \/ to = Undefined THEN "Missing coords"
     ELSE IF ~isValidCoordinate(from) \/ ~isValidCoordinate(to)
       THEN "Invalid coords"
     ELSE IF from = to THEN "Cannot move to self"
     ELSE IF srcStack = Null THEN "No source"
     ELSE IF newState.colorsAssigned /\ movingPiece.color # player.color
       THEN "Not your piece"
     ELSE IF ~pattern.valid THEN "Invalid move pattern for " \o baseType
     ELSE IF destStack = Null THEN
       IF newState.pendingChainCapture # Null
         THEN "Must capture/interact during chain"
       ELSE IF baseType = CANNON /\ pattern.screens > 0
         THEN "Cannon needs a target to jump"
       ELSE NoError
     ELSE IF ~topDest.faceUp THEN "Cannot interact with hidden pieces"
     ELSE IF captureRes = TO_HAND THEN
       IF ~isFriendly /\ cannotCapture
         THEN "Capture failed (Rank/Weight insufficient)"
       ELSE IF ~isFriendly /\ baseType = CANNON /\ pattern.screens > 1
         THEN "Invalid Cannon capture"
       ELSE NoError
     ELSE
       IF ~stackCheck.valid THEN "Cannot stack: " \o stackCheck.reason
       ELSE IF ~isFriendly /\ cannotCapture
         THEN "Capture failed (Rank/Weight insufficient)"
       ELSE IF ~isFriendly /\ baseType = CANNON /\ pattern.screens > 1
         THEN "Invalid Cannon capture"
       ELSE NoError

\* the validation of a MOVE: the message of the first check that fails
MoveRejection(newState, action) ==
  LET from == action.from
      to == action.to
      captureRes == IF action.captureResolution = UndefinedStr
                      THEN TO_HAND ELSE action.captureResolution
      player == newState.players[action.playerId]
      srcStack == newState.board[from]
      movingPiece == getTopPiece(srcStack)
      destStack == newState.board[to]
      baseType == getStackBaseType(srcStack.pieces)
      pattern == getMovePatternDetails(newState.board, from, to, baseType)
      topDest == getTopPiece(destStack)
      isFriendly == topDest.color = player.color
      cannotCapture ==
        ~canPieceCaptureTarget(newState.board, from, to, srcStack, destStack)
      stackCheck == canStackOn(destStack.pieces, srcStack.pieces, isFriendly)
  IN IF from = Undefined \/ to = Undefined THEN "Missing coords"
     ELSE IF ~isValidCoordinate(from) \/ ~isValidCoordinate(to)
       THEN "Invalid coords"
     ELSE IF from = to THEN "Cannot move to self"
     ELSE IF srcStack = Null THEN "No source"
     ELSE IF ~movingPiece.faceUp THEN "Cannot move hidden"
     ELSE IF newState.colorsAssigned /\ movingPiece.color # player.color
       THEN "Not your piece"
     ELSE IF ~pattern.valid THEN "Invalid move pattern for " \o baseType
     ELSE IF destStack = Null THEN
       IF newState.pendingChainCapture # Null
         THEN "Must capture/interact during chain"
       ELSE IF baseType = CANNON /\ pattern.screens > 0
         THEN "Cannon needs a target to jump"
       ELSE NoError
     ELSE IF ~topDest.faceUp THEN "Cannot interact with hidden pieces"
     ELSE IF captureRes = TO_HAND THEN
       IF ~isFriendly /\ cannotCapture
         THEN "Capture failed (Rank/Weight insufficient)"
       ELSE IF ~isFriendly /\ baseType = CANNON /\ pattern.screens > 1
         THEN "Invalid Cannon capture"
       ELSE NoError
     ELSE
       IF ~stackCheck.valid THEN "Cannot stack: " \o stackCheck.reason
       ELSE IF ~isFriendly /\ cannotCapture
         THEN "Capture failed (Rank/Weight insufficient)"
       ELSE IF ~isFriendly /\ baseType = CANNON /\ pattern.screens > 1
         THEN "Invalid Cannon capture"
       ELSE NoError

\* MoveExecute, but a stacking move leaves the mover's stack on its source cell
MoveExecuteKeepsSource(newState, action) ==
  LET from == action.from
      to == action.to
      me == action.playerId
      captureRes == IF action.captureResolution = UndefinedStr
                      THEN TO_HAND ELSE action.captureResolution
      player == newState.players[me]
      srcStack == newState.board[from]
      destStack == newState.board[to]
      taken == [i \in 1 .. Len(destStack.pieces) |->
                  [destStack.pieces[i] EXCEPT !.color = player.color]]
  IN IF destStack = Null
       THEN [newState EXCEPT !.board[to] = [pieces |-> srcStack.pieces],
                             !.board[from] = Null]
     ELSE IF captureRes = TO_HAND
       THEN [newState EXCEPT !.players[me].hand.pieces = @ \o taken,
                             !.board[to] = [pieces |-> srcStack.pieces],
                             !.board[from] = Null]
     ELSE [newState EXCEPT !.board[to] =
                             [pieces |-> destStack.pieces \o srcStack.pieces]]

\* MoveExecute, but the pieces taken to hand keep their color
MoveExecuteKeepsColors(newState, action) ==
  LET from == action.from
      to == action.to
      me == action.playerId
      captureRes == IF action.captureResolution = UndefinedStr
                      THEN TO_HAND ELSE action.captureResolution
      player == newState.players[me]
      srcStack == newState.board[from]
      destStack == newState.board[to]
      taken == destStack.pieces
  IN IF destStack = Null
       THEN [newState EXCEPT !.board[to] = [pieces |-> srcStack.pieces],
                             !.board[from] = Null]
     ELSE IF captureRes = TO_HAND
       THEN [newState EXCEPT !.players[me].hand.pieces = @ \o taken,
                             !.board[to] = [pieces |-> srcStack.pieces],
                             !.board[from] = Null]
     ELSE [newState EXCEPT !.board[to] =
                             [pieces |-> destStack.pieces \o srcStack.pieces],
                           !.board[from] = Null]

\* MoveExecute, but a stacking move puts the mover under the destination
MoveExecuteMoverBelow(newState, action) ==
  LET from == action.from
      to == action.to
      me == action.playerId
      captureRes == IF action.captureResolution = UndefinedStr
                      THEN TO_HAND ELSE action.captureResolution
      player == newState.players[me]
      srcStack == newState.board[from]
      destStack == newState.board[to]
      taken == [i \in 1 .. Len(destStack.pieces) |->
                  [destStack.pieces[i] EXCEPT !.color = player.color]]
  IN IF destStack = Null
       THEN [newState EXCEPT !.board[to] = [pieces |-> srcStack.pieces],
                             !.board[from] = Null]
     ELSE IF captureRes = TO_HAND
       THEN [newState EXCEPT !.players[me].hand.pieces = @ \o taken,
                             !.board[to] = [pieces |-> srcStack.pieces],
                             !.board[from] = Null]
     ELSE [newState EXCEPT !.board[to] =
                             [pieces |-> srcStack.pieces \o destStack.pieces],
                           !.board[from] = Null]

\* MoveExecute, but only the top piece taken to hand is recolored
MoveExecuteRecolorsTop(newState, action) ==
  LET from == action.from
      to == action.to
      me == action.playerId
      captureRes == IF action.captureResolution = UndefinedStr
                      THEN TO_HAND ELSE action.captureResolution
      player == newState.players[me]
      srcStack == newState.board[from]
      destStack == newState.board[to]
      taken == [i \in 1 .. Len(destStack.pieces) |->
                  IF i = Len(destStack.pieces)
                    THEN [destStack.pieces[i] EXCEPT !.color = player.color]
                    ELSE destStack.pieces[i]]
  IN IF destStack = Null
       THEN [newState EXCEPT !.board[to] = [pieces |-> srcStack.pieces],
                             !.board[from] = Null]
     ELSE IF captureRes = TO_HAND
       THEN [newState EXCEPT !.players[me].hand.pieces = @ \o taken,
                             !.board[to] = [pieces |-> srcStack.pieces],
                             !.board[from] = Null]
     ELSE [newState EXCEPT !.board[to] =
                             [pieces |-> destStack.pieces \o srcStack.pieces],
                           !.board[from] = Null]

\* the board and hand a validated MOVE produces
MoveExecute(newState, action) ==
  LET from == action.from
      to == action.to
      me == action.playerId
      captureRes == IF action.captureResolution = UndefinedStr
                      THEN TO_HAND ELSE action.captureResolution
      player == newState.players[me]
      srcStack == newState.board[from]
      destStack == newState.board[to]
      \* every piece of the destination, recolored, appended to the hand
      taken == [i \in 1 .. Len(destStack.pieces) |->
                  [destStack.pieces[i] EXCEPT !.color = player.color]]
  IN IF destStack = Null
       THEN [newState EXCEPT !.board[to] = [pieces |-> srcStack.pieces],
                             !.board[from] = Null]
     ELSE IF captureRes = TO_HAND
       THEN [newState EXCEPT !.players[me].hand.pieces = @ \o taken,
                             !.board[to] = [pieces |-> srcStack.pieces],
                             !.board[from] = Null]
     ELSE [newState EXCEPT !.board[to] =
                             [pieces |-> destStack.pieces \o srcStack.pieces],
                           !.board[from] = Null]

ApplyMove(newState, action) ==
  LET moveIsInteraction == newState.board[action.to] # Null
  IN IF MoveRejection(newState, action) # NoError
       THEN fail(newState, MoveRejection(newState, action))
     ELSE Only({AfterMove(moved, action, moveIsInteraction) :
                  moved \in {MoveExecute(newState, action)}})

\* the elements of seq at the indices in S, in order
KeepIdx(seq, S) ==
  LET F[i \in 0 .. Len(seq)] ==
        IF i = 0 THEN << >>
        ELSE IF i \in S THEN Append(F[i - 1], seq[i]) ELSE F[i - 1]
  IN F[Len(seq)]

\* ApplyDeploy, but never onto an empty cell
ApplyDeployOntoStacksOnly(newState, action) ==
  LET deployTo == action.deployTo
      deployType == action.deployType
      deployCount == action.deployCount
      me == action.playerId
      player == newState.players[me]
      hand == player.hand.pieces
      availableIndices == {i \in 1 .. Len(hand) : hand[i].type = deployType}
      \* the filter takes the first deployCount pieces of the type out of the hand
      takenIdx == {i \in availableIndices :
                     Cardinality({j \in availableIndices : j < i}) < deployCount}
      piecesToDeploy == KeepIdx(hand, takenIdx)
      remaining == KeepIdx(hand, (1 .. Len(hand)) \ takenIdx)
      targetStack == newState.board[deployTo]
      top == getTopPiece(targetStack)
      check == canStackOn(targetStack.pieces, piecesToDeploy, TRUE)
      \* a rejection after the filter pushes the pieces back at the end of the hand
      restored == [newState EXCEPT
                     !.players[me].hand.pieces = remaining \o piecesToDeploy]
      deployed ==
        [newState EXCEPT
           !.players[me].hand.pieces = remaining,
           !.board[deployTo] =
              IF targetStack = Null THEN [pieces |-> piecesToDeploy]
              ELSE [pieces |-> targetStack.pieces \o piecesToDeploy],
           !.activePlayerIndex = 1 - me,
           !.turnCount = @ + 1]
  IN IF newState.pendingChainCapture # Null
       THEN fail(newState, "Cannot deploy during chain")
     ELSE IF deployTo = Undefined \/ deployType = UndefinedStr \/ deployCount = 0
       THEN fail(newState, "Missing deploy params")
     ELSE IF deployCount < 1 THEN fail(newState, "Count must be >= 1")
     ELSE IF ~isValidCoordinate(deployTo) THEN fail(newState, "Invalid coords")
     ELSE IF Cardinality(availableIndices) < deployCount
       THEN fail(newState, "Not enough " \o deployType \o " in hand")
     ELSE IF targetStack = Null THEN fail(restored, "No stack")
     ELSE IF ~top.faceUp THEN fail(restored, "Cannot deploy on hidden")
     ELSE IF top.color # player.color THEN fail(restored, "Cannot deploy on enemy")
     ELSE IF ~check.valid THEN fail(restored, "Deploy failed: " \o check.reason)
     ELSE deployed

\* ApplyDeploy, but the deployed pieces also stay in the hand
ApplyDeployKeepsHand(newState, action) ==
  LET deployTo == action.deployTo
      deployType == action.deployType
      deployCount == action.deployCount
      me == action.playerId
      player == newState.players[me]
      hand == player.hand.pieces
      availableIndices == {i \in 1 .. Len(hand) : hand[i].type = deployType}
      \* the filter takes the first deployCount pieces of the type out of the hand
      takenIdx == {i \in availableIndices :
                     Cardinality({j \in availableIndices : j < i}) < deployCount}
      piecesToDeploy == KeepIdx(hand, takenIdx)
      remaining == KeepIdx(hand, (1 .. Len(hand)) \ takenIdx)
      targetStack == newState.board[deployTo]
      top == getTopPiece(targetStack)
      check == canStackOn(targetStack.pieces, piecesToDeploy, TRUE)
      \* a rejection after the filter pushes the pieces back at the end of the hand
      restored == [newState EXCEPT
                     !.players[me].hand.pieces = remaining \o piecesToDeploy]
      deployed ==
        [newState EXCEPT
           !.board[deployTo] =
              IF targetStack = Null THEN [pieces |-> piecesToDeploy]
              ELSE [pieces |-> targetStack.pieces \o piecesToDeploy],
           !.activePlayerIndex = 1 - me,
           !.turnCount = @ + 1]
  IN IF newState.pendingChainCapture # Null
       THEN fail(newState, "Cannot deploy during chain")
     ELSE IF deployTo = Undefined \/ deployType = UndefinedStr \/ deployCount = 0
       THEN fail(newState, "Missing deploy params")
     ELSE IF deployCount < 1 THEN fail(newState, "Count must be >= 1")
     ELSE IF ~isValidCoordinate(deployTo) THEN fail(newState, "Invalid coords")
     ELSE IF Cardinality(availableIndices) < deployCount
       THEN fail(newState, "Not enough " \o deployType \o " in hand")
     ELSE IF targetStack = Null THEN deployed
     ELSE IF ~top.faceUp THEN fail(restored, "Cannot deploy on hidden")
     ELSE IF top.color # player.color THEN fail(restored, "Cannot deploy on enemy")
     ELSE IF ~check.valid THEN fail(restored, "Deploy failed: " \o check.reason)
     ELSE deployed

ApplyDeploy(newState, action) ==
  LET deployTo == action.deployTo
      deployType == action.deployType
      deployCount == action.deployCount
      me == action.playerId
      player == newState.players[me]
      hand == player.hand.pieces
      availableIndices == {i \in 1 .. Len(hand) : hand[i].type = deployType}
      \* the filter takes the first deployCount pieces of the type out of the hand
      takenIdx == {i \in availableIndices :
                     Cardinality({j \in availableIndices : j < i}) < deployCount}
      piecesToDeploy == KeepIdx(hand, takenIdx)
      remaining == KeepIdx(hand, (1 .. Len(hand)) \ takenIdx)
      targetStack == newState.board[deployTo]
      top == getTopPiece(targetStack)
      check == canStackOn(targetStack.pieces, piecesToDeploy, TRUE)
      \* a rejection after the filter pushes the pieces back at the end of the hand
      restored == [newState EXCEPT
                     !.players[me].hand.pieces = remaining \o piecesToDeploy]
      deployed ==
        [newState EXCEPT
           !.players[me].hand.pieces = remaining,
           !.board[deployTo] =
              IF targetStack = Null THEN [pieces |-> piecesToDeploy]
              ELSE [pieces |-> targetStack.pieces \o piecesToDeploy],
           !.activePlayerIndex = 1 - me,
           !.turnCount = @ + 1]
  IN IF newState.pendingChainCapture # Null
       THEN fail(newState, "Cannot deploy during chain")
     ELSE IF deployTo = Undefined \/ deployType = UndefinedStr \/ deployCount = 0
       THEN fail(newState, "Missing deploy params")
     ELSE IF deployCount < 1 THEN fail(newState, "Count must be >= 1")
     ELSE IF ~isValidCoordinate(deployTo) THEN fail(newState, "Invalid coords")
     ELSE IF Cardinality(availableIndices) < deployCount
       THEN fail(newState, "Not enough " \o deployType \o " in hand")
     ELSE IF targetStack = Null THEN deployed
     ELSE IF ~top.faceUp THEN fail(restored, "Cannot deploy on hidden")
     ELSE IF top.color # player.color THEN fail(restored, "Cannot deploy on enemy")
     ELSE IF ~check.valid THEN fail(restored, "Deploy failed: " \o check.reason)
     ELSE deployed

\* ApplyRetrieve, but from a stack of any color
ApplyRetrieveAnyStack(newState, action) ==
  LET retrieveFrom == action.retrieveFrom
      retrievePieceIds == action.retrievePieceIds
      me == action.playerId
      player == newState.players[me]
      stack == newState.board[retrieveFrom]
      top == getTopPiece(stack)
      stackIds == {stack.pieces[i].id : i \in 1 .. Len(stack.pieces)}
      wanted == {retrievePieceIds[i] : i \in 1 .. Len(retrievePieceIds)}
      unknown == {i \in 1 .. Len(retrievePieceIds) :
                    retrievePieceIds[i] \notin stackIds}
      retrievedIdx == {i \in 1 .. Len(stack.pieces) : stack.pieces[i].id \in wanted}
      retrievedPieces == KeepIdx(stack.pieces, retrievedIdx)
      newStackPieces == KeepIdx(stack.pieces, (1 .. Len(stack.pieces)) \ retrievedIdx)
  IN IF newState.pendingChainCapture # Null
       THEN fail(newState, "Cannot retrieve during chain")
     ELSE IF retrieveFrom = Undefined THEN fail(newState, "Missing retrieve params")
     ELSE IF NoSuchRow(retrieveFrom) THEN throw(newState)
     ELSE IF NoSuchCol(retrieveFrom) THEN fail(newState, "No stack")
     ELSE IF stack = Null THEN fail(newState, "No stack")
     ELSE IF Len(stack.pieces) - Len(retrievePieceIds) < 1
       THEN fail(newState, "Must leave at least 1 piece")
     ELSE IF unknown # {}
       THEN fail(newState, "Piece " \o ToString(retrievePieceIds[MinOf(unknown)])
                           \o " not in stack")
     ELSE [newState EXCEPT
             !.board[retrieveFrom].pieces = newStackPieces,
             !.players[me].hand.pieces = @ \o retrievedPieces,
             !.activePlayerIndex = 1 - me,
             !.turnCount = @ + 1]

\* ApplyRetrieve, but taking as many pieces as listed off the top of the stack
ApplyRetrieveTakesTop(newState, action) ==
  LET retrieveFrom == action.retrieveFrom
      retrievePieceIds == action.retrievePieceIds
      me == action.playerId
      player == newState.players[me]
      stack == newState.board[retrieveFrom]
      top == getTopPiece(stack)
      stackIds == {stack.pieces[i].id : i \in 1 .. Len(stack.pieces)}
      wanted == {retrievePieceIds[i] : i \in 1 .. Len(retrievePieceIds)}
      unknown == {i \in 1 .. Len(retrievePieceIds) :
                    retrievePieceIds[i] \notin stackIds}
      retrievedIdx == {i \in 1 .. Len(stack.pieces) :
                         i > Len(stack.pieces) - Len(retrievePieceIds)}
      retrievedPieces == KeepIdx(stack.pieces, retrievedIdx)
      newStackPieces == KeepIdx(stack.pieces, (1 .. Len(stack.pieces)) \ retrievedIdx)
  IN IF newState.pendingChainCapture # Null
       THEN fail(newState, "Cannot retrieve during chain")
     ELSE IF retrieveFrom = Undefined THEN fail(newState, "Missing retrieve params")
     ELSE IF NoSuchRow(retrieveFrom) THEN throw(newState)
     ELSE IF NoSuchCol(retrieveFrom) THEN fail(newState, "No stack")
     ELSE IF stack = Null THEN fail(newState, "No stack")
     ELSE IF top.color # player.color THEN fail(newState, "Not your stack")
     ELSE IF Len(stack.pieces) - Len(retrievePieceIds) < 1
       THEN fail(newState, "Must leave at least 1 piece")
     ELSE IF unknown # {}
       THEN fail(newState, "Piece " \o ToString(retrievePieceIds[MinOf(unknown)])
                           \o " not in stack")
     ELSE [newState EXCEPT
             !.board[retrieveFrom].pieces = newStackPieces,
             !.players[me].hand.pieces = @ \o retrievedPieces,
             !.activePlayerIndex = 1 - me,
             !.turnCount = @ + 1]

ApplyRetrieve(newState, action) ==
  LET retrieveFrom == action.retrieveFrom
      retrievePieceIds == action.retrievePieceIds
      me == action.playerId
      player == newState.players[me]
      stack == newState.board[retrieveFrom]
      top == getTopPiece(stack)
      stackIds == {stack.pieces[i].id : i \in 1 .. Len(stack.pieces)}
      wanted == {retrievePieceIds[i] : i \in 1 .. Len(retrievePieceIds)}
      unknown == {i \in 1 .. Len(retrievePieceIds) :
                    retrievePieceIds[i] \notin stackIds}
      retrievedIdx == {i \in 1 .. Len(stack.pieces) : stack.pieces[i].id \in wanted}
      retrievedPieces == KeepIdx(stack.pieces, retrievedIdx)
      newStackPieces == KeepIdx(stack.pieces, (1 .. Len(stack.pieces)) \ retrievedIdx)
  IN IF newState.pendingChainCapture # Null
       THEN fail(newState, "Cannot retrieve during chain")
     ELSE IF retrieveFrom = Undefined THEN fail(newState, "Missing retrieve params")
     ELSE IF NoSuchRow(retrieveFrom) THEN throw(newState)
     ELSE IF NoSuchCol(retrieveFrom) THEN fail(newState, "No stack")
     ELSE IF stack = Null THEN fail(newState, "No stack")
     ELSE IF top.color # player.color THEN fail(newState, "Not your stack")
     ELSE IF Len(stack.pieces) - Len(retrievePieceIds) < 1
       THEN fail(newState, "Must leave at least 1 piece")
     ELSE IF unknown # {}
       THEN fail(newState, "Piece " \o ToString(retrievePieceIds[MinOf(unknown)])
                           \o " not in stack")
     ELSE [newState EXCEPT
             !.board[retrieveFrom].pieces = newStackPieces,
             !.players[me].hand.pieces = @ \o retrievedPieces,
             !.activePlayerIndex = 1 - me,
             !.turnCount = @ + 1]

\* PreflightRejection, but any piece may move while a chain is pending
PreflightAnyMover(newState, action) ==
  IF newState.isGameOver THEN "Game is over"
  ELSE IF action.playerId # newState.activePlayerIndex THEN "Not your turn"
  ELSE IF newState.pendingChainCapture # Null THEN
    IF action.type = PASS THEN NoError
    ELSE IF action.type # MOVE THEN "Must Continue Chain or Pass"
    ELSE NoError
  ELSE IF action.type = PASS THEN "Cannot pass when not chaining"
  ELSE NoError

\* PreflightRejection without the game-over and the turn checks
PreflightNoGate(newState, action) ==
  IF newState.pendingChainCapture # Null THEN
    IF action.type = PASS THEN NoError
    ELSE IF action.type # MOVE THEN "Must Continue Chain or Pass"
    ELSE IF action.from = Undefined \/ action.from # newState.pendingChainCapture
      THEN "Must move the chaining piece"
    ELSE NoError
  ELSE IF action.type = PASS THEN "Cannot pass when not chaining"
  ELSE NoError

\* the pre-flight checks: game over, turn, and the pending chain protocol
PreflightRejection(newState, action) ==
  IF newState.isGameOver THEN "Game is over"
  ELSE IF action.playerId # newState.activePlayerIndex THEN "Not your turn"
  ELSE IF newState.pendingChainCapture # Null THEN
    IF action.type = PASS THEN NoError
    ELSE IF action.type # MOVE THEN "Must Continue Chain or Pass"
    ELSE IF action.from = Undefined \/ action.from # newState.pendingChainCapture
      THEN "Must move the chaining piece"
    ELSE NoError
  ELSE IF action.type = PASS THEN "Cannot pass when not chaining"
  ELSE NoError

\* PassChain, but the turn stays with the player who passed
PassChainKeepsPlayer(newState, action) ==
  [newState EXCEPT !.pendingChainCapture = Null,
                   !.turnCount = @ + 1]

\* PASS while chaining ends the chain and returns at once
PassChain(newState, action) ==
  [newState EXCEPT !.pendingChainCapture = Null,
                   !.activePlayerIndex = 1 - action.playerId,
                   !.turnCount = @ + 1]

applyAction(state, action) ==
  LET newState == [state EXCEPT !.error = NoError]
      \* the switch; a case that returns fail(...) leaves through its return
      switched ==
        CASE action.type = FLIP -> ApplyFlip(newState, action)
          [] action.type = MOVE -> ApplyMove(newState, action)
          [] action.type = DEPLOY -> ApplyDeploy(newState, action)
          [] action.type = RETRIEVE -> ApplyRetrieve(newState, action)
          [] OTHER -> newState
  IN IF PreflightRejection(newState, action) # NoError
       THEN fail(newState, PreflightRejection(newState, action))
     ELSE IF newState.pendingChainCapture # Null /\ action.type = PASS
       THEN PassChain(newState, action)
     ELSE Only({IF s.error # NoError THEN s ELSE ResolveAction(s, action) :
                  s \in {switched}})

\* ---------------------------------------------------------------- the game
VARIABLES board, players, activePlayerIndex, colorsAssigned, turnCount,
          isGameOver, winner, lastAction, error, pendingChainCapture

vars == <<board, players, activePlayerIndex, colorsAssigned, turnCount,
          isGameOver, winner, lastAction, error, pendingChainCapture>>

\* the GameState object the callers hold
gameState ==
  [board |-> board, players |-> players,
   activePlayerIndex |-> activePlayerIndex, colorsAssigned |-> colorsAssigned,
   turnCount |-> turnCount, isGameOver |-> isGameOver, winner |-> winner,
   lastAction |-> lastAction, error |-> error,
   pendingChainCapture |-> pendingChainCapture]

Card(type, color) == [type |-> type, color |-> color]

\* shuffled decks createDeck can return, cut to the size of the board
Deals ==
  { << Card(CHARIOT, RED), Card(SOLDIER, BLACK), Card(CANNON, BLACK),
       Card(GENERAL, RED), Card(SOLDIER, RED), Card(HORSE, BLACK) >> }

DeckTypes == UNION {{d[i].type : i \in 1 .. Len(d)} : d \in Deals}

\* the cell that receives deck[deckIndex], row by row
CellIndex(loc) == loc.row * Cols + loc.col + 1

initRandomGame(deck) ==
  [board |-> [l \in Location |->
                IF CellIndex(l) <= Len(deck)
                  THEN [pieces |-> << [id |-> CellIndex(l),
                                       type |-> deck[CellIndex(l)].type,
                                       color |-> deck[CellIndex(l)].color,
                                       faceUp |-> FALSE] >>]
                  ELSE Null],
   players |-> [i \in {0, 1} |-> [color |-> UNKNOWN, hand |-> [pieces |-> << >>]]],
   activePlayerIndex |-> 0,
   colorsAssigned |-> FALSE,
   turnCount |-> 0,
   isGameOver |-> FALSE,
   winner |-> NoWinner,
   lastAction |-> Null,
   error |-> NoError,
   pendingChainCapture |-> Null]

Install(s) ==
  /\ board' = s.board
  /\ players' = s.players
  /\ activePlayerIndex' = s.activePlayerIndex
  /\ colorsAssigned' = s.colorsAssigned
  /\ turnCount' = s.turnCount
  /\ isGameOver' = s.isGameOver
  /\ winner' = s.winner
  /\ lastAction' = s.lastAction
  /\ error' = s.error
  /\ pendingChainCapture' = s.pendingChainCapture

Init ==
  \E deck \in Deals :
    LET s == initRandomGame(deck)
    IN /\ board = s.board
       /\ players = s.players
       /\ activePlayerIndex = s.activePlayerIndex
       /\ colorsAssigned = s.colorsAssigned
       /\ turnCount = s.turnCount
       /\ isGameOver = s.isGameOver
       /\ winner = s.winner
       /\ lastAction = s.lastAction
       /\ error = s.error
       /\ pendingChainCapture = s.pendingChainCapture

PlayerIds == {0, 1}
Resolutions == {TO_HAND, STACK_IF_POSSIBLE}
\* createDeck numbers the pieces of the deck
PieceIds == UNION {1 .. Len(d) : d \in Deals}

\* the members of a set of ids, in increasing order
SortedSeq(S) ==
  [i \in 1 .. Cardinality(S) |->
     CHOOSE x \in S : Cardinality({y \in S : y < x}) = i - 1]

\* the id lists a caller passes to RETRIEVE on a cell: at most MaxRetrieve ids
\* of the stack on it, or of the stack and one id that is not in it
IdLists(from) ==
  LET inStack == IF board[from] = Null THEN {}
                 ELSE {board[from].pieces[i].id : i \in 1 .. Len(board[from].pieces)}
      foreign == IF PieceIds \ inStack = {} THEN {}
                 ELSE {MinOf(PieceIds \ inStack)}
  IN {SortedSeq(S) : S \in {S \in SUBSET (inStack \cup foreign) :
                              Cardinality(S) <= MaxRetrieve}}

\* The callers hand applyAction the last state it accepted: a result that
\* carries an error is reported and dropped (App.tsx queueAction), and
\* applyAction itself starts by clearing error, so a rejected state has no
\* successor its accepted predecessor lacks.  A finished game takes no more
\* turns, so calls on it are followed whatever the turn count.
Callable == error = NoError /\ (turnCount < MaxTurns \/ isGameOver)

\* the actions the callers try
FlipInputs == {FlipAction(p, loc) : p \in PlayerIds, loc \in Location}

MoveInputs ==
  {MoveAction(p, from, to, res) :
     p \in PlayerIds, from \in Location, to \in Location, res \in Resolutions}

DeployInputs ==
  {DeployAction(p, type, count, to) :
     p \in PlayerIds, type \in DeckTypes, count \in 1 .. MaxDeploy, to \in Location}

RetrieveInputs ==
  UNION {{RetrieveAction(p, from, ids) : p \in PlayerIds, ids \in IdLists(from)} :
           from \in Location}

PassInputs == {PassAction(p) : p \in PlayerIds}

Inputs == FlipInputs \cup MoveInputs \cup DeployInputs \cup RetrieveInputs \cup PassInputs

\* Each action is one call of applyAction; its result replaces the state the
\* callers hold.
Flip ==
  \E action \in FlipInputs :
    /\ Callable
    /\ \E s \in {applyAction(gameState, action)} : Install(s)

Move ==
  \E action \in MoveInputs :
    /\ Callable
    /\ \E s \in {applyAction(gameState, action)} : Install(s)

Deploy ==
  \E action \in DeployInputs :
    /\ Callable
    /\ \E s \in {applyAction(gameState, action)} : Install(s)

Retrieve ==
  \E action \in RetrieveInputs :
    /\ Callable
    /\ \E s \in {applyAction(gameState, action)} : Install(s)

Pass ==
  \E action \in PassInputs :
    /\ Callable
    /\ \E s \in {applyAction(gameState, action)} : Install(s)

Next == Flip \/ Move \/ Deploy \/ Retrieve \/ Pass

Spec == Init /\ [][Next]_vars

\* ---------------------------------------------------------------- short games
\* Games over other deals, played for a few turns only: the first row deals
\* a RED piece and a BLACK piece of every pair of types side by side, with a
\* BLACK Cannon behind them.
MaxPairTurns == 3

PairDeals ==
  { << Card(ta, RED), Card(td, BLACK), Card(CANNON, BLACK),
       Card(HORSE, RED), Card(SOLDIER, BLACK), Card(ELEPHANT, RED) >> :
      ta \in PieceType, td \in PieceType }

InitPairs ==
  \E deck \in PairDeals :
    LET s == initRandomGame(deck)
    IN /\ board = s.board
       /\ players = s.players
       /\ activePlayerIndex = s.activePlayerIndex
       /\ colorsAssigned = s.colorsAssigned
       /\ turnCount = s.turnCount
       /\ isGameOver = s.isGameOver
       /\ winner = s.winner
       /\ lastAction = s.lastAction
       /\ error = s.error
       /\ pendingChainCapture = s.pendingChainCapture

PairCallable == turnCount < MaxPairTurns /\ error = NoError

PairDeployInputs ==
  {DeployAction(p, type, count, to) :
     p \in PlayerIds, type \in PieceType, count \in 1 .. MaxDeploy, to \in Location}

PairFlip ==
  \E action \in FlipInputs :
    /\ PairCallable
    /\ \E s \in {applyAction(gameState, action)} : Install(s)

PairMove ==
  \E action \in MoveInputs :
    /\ PairCallable
    /\ \E s \in {applyAction(gameState, action)} : Install(s)

PairDeploy ==
  \E action \in PairDeployInputs :
    /\ PairCallable
    /\ \E s \in {applyAction(gameState, action)} : Install(s)

PairRetrieve ==
  \E action \in RetrieveInputs :
    /\ PairCallable
    /\ \E s \in {applyAction(gameState, action)} : Install(s)

PairPass ==
  \E action \in PassInputs :
    /\ PairCallable
    /\ \E s \in {applyAction(gameState, action)} : Install(s)

NextPairs == PairFlip \/ PairMove \/ PairDeploy \/ PairRetrieve \/ PairPass

SpecPairs == InitPairs /\ [][NextPairs]_vars

\* ---------------------------------------------------------------- lone piece
\* Games over deals that put a RED Horse in a corner and BLACK pieces on four
\* other cells; the cell diagonal to the Horse holds a BLACK Advisor, which
\* the Horse cannot take, a BLACK Soldier, which it can, or a RED Advisor.
MaxLoneTurns == 6

LoneBlockers ==
  {Card(ADVISOR, BLACK), Card(SOLDIER, BLACK), Card(ADVISOR, RED)}

LoneDeals ==
  { << Card(HORSE, RED), Card(SOLDIER, BLACK), Card(CANNON, BLACK),
       Card(CHARIOT, BLACK), blocker, Card(HORSE, BLACK) >> :
      blocker \in LoneBlockers }

InitLone ==
  \E deck \in LoneDeals :
    LET s == initRandomGame(deck)
    IN /\ board = s.board
       /\ players = s.players
       /\ activePlayerIndex = s.activePlayerIndex
       /\ colorsAssigned = s.colorsAssigned
       /\ turnCount = s.turnCount
       /\ isGameOver = s.isGameOver
       /\ winner = s.winner
       /\ lastAction = s.lastAction
       /\ error = s.error
       /\ pendingChainCapture = s.pendingChainCapture

LoneCallable == error = NoError /\ (turnCount < MaxLoneTurns \/ isGameOver)

LoneFlip ==
  \E action \in FlipInputs :
    /\ LoneCallable
    /\ \E s \in {applyAction(gameState, action)} : Install(s)

LoneMove ==
  \E action \in MoveInputs :
    /\ LoneCallable
    /\ \E s \in {applyAction(gameState, action)} : Install(s)

LoneDeploy ==
  \E action \in PairDeployInputs :
    /\ LoneCallable
    /\ \E s \in {applyAction(gameState, action)} : Install(s)

LoneRetrieve ==
  \E action \in RetrieveInputs :
    /\ LoneCallable
    /\ \E s \in {applyAction(gameState, action)} : Install(s)

LonePass ==
  \E action \in PassInputs :
    /\ LoneCallable
    /\ \E s \in {applyAction(gameState, action)} : Install(s)

NextLone == LoneFlip \/ LoneMove \/ LoneDeploy \/ LoneRetrieve \/ LonePass

SpecLone == InitLone /\ [][NextLone]_vars

\* ---------------------------------------------------------------- revealed games
\* Games of the deal of Spec in which the players turn every piece face-up
\* before anything else is tried: the board of such a game is all face-up
\* after one turn per cell, which leaves turns for the captures that end it.
MaxShownTurns == 8

SomeHidden ==
  \E l \in Location : board[l] # Null /\ ~getTopPiece(board[l]).faceUp

ShownCallable ==
  error = NoError /\ (turnCount < MaxShownTurns \/ isGameOver)

ShownFlip ==
  \E action \in FlipInputs :
    /\ ShownCallable
    /\ \E s \in {applyAction(gameState, action)} : Install(s)

ShownMove ==
  \E action \in MoveInputs :
    /\ ShownCallable /\ ~SomeHidden
    /\ \E s \in {applyAction(gameState, action)} : Install(s)

ShownDeploy ==
  \E action \in DeployInputs :
    /\ ShownCallable /\ ~SomeHidden
    /\ \E s \in {applyAction(gameState, action)} : Install(s)

ShownRetrieve ==
  \E action \in RetrieveInputs :
    /\ ShownCallable /\ ~SomeHidden
    /\ \E s \in {applyAction(gameState, action)} : Install(s)

ShownPass ==
  \E action \in PassInputs :
    /\ ShownCallable /\ ~SomeHidden
    /\ \E s \in {applyAction(gameState, action)} : Install(s)

NextShown == ShownFlip \/ ShownMove \/ ShownDeploy \/ ShownRetrieve \/ ShownPass

SpecShown == Init /\ [][NextShown]_vars

\* ---------------------------------------------------------------- properties
\* a state the callers hold and may hand to applyAction
GoodState == error = NoError

\* the places where the piece with identifier id lies
BoardPlaces(id) ==
  {x \in Location \X (1 .. Cardinality(PieceIds)) :
     /\ board[x[1]] # Null
     /\ x[2] <= Len(board[x[1]].pieces)
     /\ board[x[1]].pieces[x[2]].id = id}

HandPlaces(id) ==
  {x \in PlayerIds \X (1 .. Cardinality(PieceIds)) :
     /\ x[2] <= Len(players[x[1]].hand.pieces)
     /\ players[x[1]].hand.pieces[x[2]].id = id}

PiecesOnBoard ==
  UNION {{board[l].pieces[i] : i \in 1 .. Len(board[l].pieces)} :
           l \in {l \in Location : board[l] # Null}}

PiecesInHands ==
  UNION {{players[p].hand.pieces[i] : i \in 1 .. Len(players[p].hand.pieces)} :
           p \in PlayerIds}

\* C1 (Conservation): in every reachable state, accepted or rejected, every
\* piece of the deck lies in exactly one place, a cell of the board or a
\* hand, and no other piece exists: pieces on board plus pieces in hands make
\* the deck (32 pieces in the source, one per cell here).
C1_Conservation ==
  /\ \A id \in PieceIds :
       Cardinality(BoardPlaces(id)) + Cardinality(HandPlaces(id)) = 1
  /\ \A piece \in PiecesOnBoard \cup PiecesInHands : piece.id \in PieceIds

\* a DEPLOY was just accepted, a hand still holds a piece and a stack of two
\* stands on the board: moves in both modes and a deploy have acted
C1_Witness ==
  /\ GoodState
  /\ lastAction # Null
  /\ lastAction.type = DEPLOY
  /\ \E p \in PlayerIds : Len(players[p].hand.pieces) > 0
  /\ \E l \in Location : board[l] # Null /\ Len(board[l].pieces) >= 2

\* C2 (Rejection purity): whenever applyAction rejects an action, the state
\* it returns equals its input in every field but error.
C2_RejectionPurity ==
  GoodState =>
    \A action \in Inputs :
      \A r \in {applyAction(gameState, action)} :
        r.error # NoError => [r EXCEPT !.error = NoError] = gameState

\* C3 (Turn alternation): an accepted action that leaves no chain pending
\* switches the active player and adds one to turnCount; an accepted MOVE that
\* enters or continues a chain leaves both unchanged.
C3_TurnAlternation ==
  GoodState =>
    \A action \in Inputs :
      \A r \in {applyAction(gameState, action)} :
        r.error = NoError =>
          IF r.pendingChainCapture # Null
            THEN /\ action.type = MOVE
                 /\ r.activePlayerIndex = activePlayerIndex
                 /\ r.turnCount = turnCount
            ELSE /\ r.activePlayerIndex = 1 - activePlayerIndex
                 /\ r.turnCount = turnCount + 1

\* a chain was entered: the mover is still the active player
C3_Witness ==
  /\ GoodState
  /\ pendingChainCapture # Null
  /\ lastAction.type = MOVE
  /\ lastAction.playerId = activePlayerIndex
  /\ turnCount > 0

\* Section 4.4 and 4.5 of the rules: may the stack on cell from interact with
\* the stack on cell t of board b (pattern valid for the base type; an enemy
\* target also weight/rank-eligible, a friendly target always)
Eligible(b, from, t) ==
  LET atk == b[from].pieces
      def == b[t].pieces
      atkTop == atk[Len(atk)]
      defTop == def[Len(def)]
      base == getStackBaseType(atk)
      pattern == getMovePatternDetails(b, from, t, base)
  IN /\ pattern.valid
     /\ \/ atkTop.color = defTop.color
        \/ Len(atk) > Len(def)
        \/ /\ Len(atk) = Len(def)
           /\ \/ base = CANNON /\ pattern.screens = 1
              \/ atkTop.type = SOLDIER /\ defTop.type = GENERAL
              \/ /\ ~(atkTop.type = GENERAL /\ defTop.type = SOLDIER)
                 /\ PIECE_RANKS[atkTop.type] >= PIECE_RANKS[defTop.type]

\* some other face-up stack of board b is one the stack on cell loc may
\* interact with
ChainTargets(b, loc) ==
  {t \in Location \ {loc} :
     /\ b[t] # Null
     /\ b[t].pieces[Len(b[t].pieces)].faceUp
     /\ Eligible(b, loc, t)}

\* C4 (Chain entry): an accepted MOVE onto an occupied cell to, in either
\* mode, leaves pendingChainCapture = to and the turn where it was iff the
\* stack now on to has a chain target on the board the move produced;
\* otherwise pendingChainCapture is null and the turn advances. An accepted
\* MOVE onto an empty cell never sets pendingChainCapture.
C4_ChainEntry ==
  GoodState =>
    \A action \in MoveInputs :
      \A r \in {applyAction(gameState, action)} :
        r.error = NoError =>
          IF board[action.to] = Null THEN r.pendingChainCapture = Null
          ELSE IF ChainTargets(r.board, action.to) # {}
            THEN /\ r.pendingChainCapture = action.to
                 /\ r.activePlayerIndex = activePlayerIndex
                 /\ r.turnCount = turnCount
            ELSE /\ r.pendingChainCapture = Null
                 /\ r.activePlayerIndex = 1 - activePlayerIndex
                 /\ r.turnCount = turnCount + 1

\* a stacking MOVE entered a chain whose only targets are friendly
C4_Witness ==
  /\ GoodState
  /\ pendingChainCapture # Null
  /\ lastAction.type = MOVE
  /\ lastAction.to = pendingChainCapture
  /\ lastAction.captureResolution = STACK_IF_POSSIBLE
  /\ ChainTargets(board, pendingChainCapture) # {}
  /\ \A t \in ChainTargets(board, pendingChainCapture) :
       getTopPiece(board[t]).color = players[activePlayerIndex].color

\* C5 (Chain protocol): while pendingChainCapture = loc every FLIP, DEPLOY and
\* RETRIEVE, every MOVE whose from is not loc and every MOVE from loc onto an
\* empty cell is rejected: only PASS and a MOVE from loc onto an occupied cell
\* can be accepted.
C5_ChainProtocol ==
  (GoodState /\ pendingChainCapture # Null) =>
    \A action \in Inputs :
      applyAction(gameState, action).error = NoError =>
        \/ action.type = PASS
        \/ /\ action.type = MOVE
           /\ action.from = pendingChainCapture
           /\ board[action.to] # Null

\* a MOVE of the chaining piece onto an empty cell was rejected
C5_Witness ==
  /\ pendingChainCapture # Null
  /\ error = "Must capture/interact during chain"

\* C6 (PASS): PASS is accepted iff the acting player is the active player of
\* a state that is not over and has a pending chain; an accepted PASS clears
\* pendingChainCapture, switches the active player and leaves the board and
\* both hands as they were.
C6_Pass ==
  GoodState =>
    \A p \in PlayerIds :
      \A r \in {applyAction(gameState, PassAction(p))} :
        /\ r.error = NoError <=>
             (p = activePlayerIndex /\ ~isGameOver /\ pendingChainCapture # Null)
        /\ r.error = NoError =>
             /\ r.pendingChainCapture = Null
             /\ r.activePlayerIndex = 1 - p
             /\ r.board = board
             /\ r.players = players

\* a chain is pending after a capture filled a hand, and the PASS of the
\* active player ends it
C6_Witness ==
  /\ GoodState
  /\ pendingChainCapture # Null
  /\ Len(players[activePlayerIndex].hand.pieces) > 0
  /\ \E r \in {applyAction(gameState, PassAction(activePlayerIndex))} :
       /\ r.error = NoError
       /\ r.pendingChainCapture = Null
       /\ r.activePlayerIndex = 1 - activePlayerIndex

\* every piece on board b shows its face
AllFaceUp(b) ==
  \A l \in Location :
    b[l] # Null => \A i \in 1 .. Len(b[l].pieces) : b[l].pieces[i].faceUp

\* player p of state s owns a stack of the board: one topped by a piece of
\* their color
OwnsStack(s, p) ==
  \E l \in Location :
    /\ s.board[l] # Null
    /\ s.board[l].pieces[Len(s.board[l].pieces)].color = s.players[p].color

\* C7 (Elimination win): after any accepted action that leaves no chain
\* pending, PASS included, if colors are assigned, every piece on the board is
\* face-up and the now-active player owns no stack, then the game is over and
\* the other player has won.
C7_EliminationWin ==
  GoodState =>
    \A action \in Inputs :
      \A r \in {applyAction(gameState, action)} :
        ( /\ r.error = NoError
          /\ r.pendingChainCapture = Null
          /\ r.colorsAssigned
          /\ AllFaceUp(r.board)
          /\ ~OwnsStack(r, r.activePlayerIndex) ) =>
            /\ r.isGameOver
            /\ r.winner = <<1 - r.activePlayerIndex>>

\* C8 (Stalemate win, no deadlock): after any accepted action that leaves no
\* chain pending, PASS included, if getLegalActions is empty for the now-active
\* player then the game is over and the other player has won; so in every
\* reachable state that is not over the player to move has a legal action.
C8_StalemateWin ==
  /\ GoodState =>
       \A action \in Inputs :
         \A r \in {applyAction(gameState, action)} :
           ( /\ r.error = NoError
             /\ r.pendingChainCapture = Null
             /\ getLegalActions(r, r.activePlayerIndex) = {} ) =>
               /\ r.isGameOver
               /\ r.winner = <<1 - r.activePlayerIndex>>
  /\ (GoodState /\ ~isGameOver) =>
       getLegalActions(gameState, activePlayerIndex) # {}

\* the base type as the rules word it: the first piece from the bottom that
\* is no General, or General when every piece is one
BaseTypeOf(pieces) ==
  IF \A i \in 1 .. Len(pieces) : pieces[i].type = GENERAL THEN GENERAL
  ELSE pieces[CHOOSE i \in 1 .. Len(pieces) :
                /\ pieces[i].type # GENERAL
                /\ \A j \in 1 .. (i - 1) : pieces[j].type = GENERAL].type

OntoEnemy(action) ==
  /\ colorsAssigned
  /\ action.from # action.to
  /\ board[action.from] # Null
  /\ board[action.to] # Null
  /\ getTopPiece(board[action.to]).faceUp
  /\ getTopPiece(board[action.to]).color # players[action.playerId].color

\* C10 (Weight dominance): a MOVE onto an enemy-topped stack by a stack with
\* fewer pieces is rejected in both resolution modes whatever the piece types,
\* and one by a stack with more pieces is never rejected for rank reasons.
C10_WeightDominance ==
  GoodState =>
    \A action \in MoveInputs :
      OntoEnemy(action) =>
        \A r \in {applyAction(gameState, action)} :
          /\ Len(board[action.from].pieces) < Len(board[action.to].pieces) =>
               r.error # NoError
          /\ Len(board[action.from].pieces) > Len(board[action.to].pieces) =>
               r.error # "Capture failed (Rank/Weight insufficient)"

\* a lone Soldier of the active player stands next to an enemy stack of two
\* topped by a General, and its attack is rejected in both modes
C10_Witness ==
  /\ GoodState
  /\ ~isGameOver
  /\ \E from \in Location, to \in Location :
       /\ board[from] # Null
       /\ board[to] # Null
       /\ Len(board[from].pieces) = 1
       /\ Len(board[to].pieces) = 2
       /\ getTopPiece(board[from]).type = SOLDIER
       /\ getTopPiece(board[from]).color = players[activePlayerIndex].color
       /\ getTopPiece(board[to]).type = GENERAL
       /\ OntoEnemy(MoveAction(activePlayerIndex, from, to, TO_HAND))
       /\ getMovePatternDetails(board, from, to, SOLDIER).valid
       /\ \A res \in Resolutions :
            applyAction(gameState, MoveAction(activePlayerIndex, from, to, res)).error
              = "Capture failed (Rank/Weight insufficient)"

\* the occupied cells of board b strictly between from and to on the row or
\* column they share
OccupiedBetween(b, from, to) ==
  {l \in DOMAIN b :
     /\ b[l] # Null
     /\ \/ /\ from.row = to.row /\ l.row = from.row
           /\ \/ from.col < l.col /\ l.col < to.col
              \/ to.col < l.col /\ l.col < from.col
        \/ /\ from.col = to.col /\ l.col = from.col
           /\ \/ from.row < l.row /\ l.row < to.row
              \/ to.row < l.row /\ l.row < from.row}

\* the movement pattern of a stack of base type base, as the rules word it
PatternOk(b, from, to, base) ==
  LET dRow == Abs(to.row - from.row)
      dCol == Abs(to.col - from.col)
      line == from.row = to.row \/ from.col = to.col
      n == Cardinality(OccupiedBetween(b, from, to))
  IN CASE base = HORSE -> dRow = 1 /\ dCol = 1
       [] base = CHARIOT -> line /\ n = 0
       [] base = CANNON -> line /\ n <= 1
       [] OTHER -> dRow + dCol = 1

\* a Cannon-based stack on from jumping over exactly one occupied cell to to
IsJump(b, from, to) ==
  /\ BaseTypeOf(b[from].pieces) = CANNON
  /\ from.row = to.row \/ from.col = to.col
  /\ Cardinality(OccupiedBetween(b, from, to)) = 1

\* the ranks as the rules list them
RankOf(type) ==
  CASE type = GENERAL -> 6
    [] type = ADVISOR -> 5
    [] type = ELEPHANT -> 4
    [] type = CHARIOT -> 3
    [] type = HORSE -> 2
    [] type = CANNON -> 1
    [] type = SOLDIER -> 0

\* the rank rule at equal weight
RankEligible(atk, def) ==
  \/ atk = SOLDIER /\ def = GENERAL
  \/ /\ ~(atk = GENERAL /\ def = SOLDIER)
     /\ RankOf(atk) >= RankOf(def)

\* the active player may send the face-up stack on from against the face-up,
\* enemy-topped stack on to: the game runs and no chain binds another cell
MayAttack(from, to) ==
  /\ ~isGameOver
  /\ colorsAssigned
  /\ from # to
  /\ board[from] # Null
  /\ board[to] # Null
  /\ getTopPiece(board[from]).faceUp
  /\ getTopPiece(board[from]).color = players[activePlayerIndex].color
  /\ getTopPiece(board[to]).faceUp
  /\ getTopPiece(board[to]).color # players[activePlayerIndex].color
  /\ pendingChainCapture \in {Null, from}

\* C11 (Equal-weight rank rule): for a MOVE that is no jump, in a valid
\* pattern, onto an enemy-topped stack of equal weight, the capture is eligible
\* iff the attacker's top is a Soldier and the defender's a General, or the
\* attacker's top is not a General facing a Soldier and its rank is at least
\* the defender's: the to-hand MOVE is accepted exactly then, and the stacking
\* MOVE is rejected when it is not eligible.
C11_EqualWeightRank ==
  GoodState =>
    \A from \in Location, to \in Location :
      ( /\ MayAttack(from, to)
        /\ Len(board[from].pieces) = Len(board[to].pieces)
        /\ PatternOk(board, from, to, BaseTypeOf(board[from].pieces))
        /\ ~IsJump(board, from, to) ) =>
          LET eligible == RankEligible(getTopPiece(board[from]).type,
                                       getTopPiece(board[to]).type)
              p == activePlayerIndex
          IN /\ canPieceCaptureTarget(board, from, to, board[from], board[to])
                  <=> eligible
             /\ applyAction(gameState, MoveAction(p, from, to, TO_HAND)).error = NoError
                  <=> eligible
             /\ ~eligible =>
                  applyAction(gameState, MoveAction(p, from, to, STACK_IF_POSSIBLE)).error
                    # NoError

\* a lone Soldier has just captured a lone General to hand
C11_Witness ==
  /\ GoodState
  /\ lastAction # Null
  /\ lastAction.type = MOVE
  /\ lastAction.captureResolution = TO_HAND
  /\ board[lastAction.to] # Null
  /\ Len(board[lastAction.to].pieces) = 1
  /\ getTopPiece(board[lastAction.to]).type = SOLDIER
  /\ Len(players[lastAction.playerId].hand.pieces) = 1
  /\ players[lastAction.playerId].hand.pieces[1].type = GENERAL

\* the active player's Cannon-based stack on from stands on a line with the
\* face-up enemy-topped stack on to, of equal weight
CannonFaces(from, to) ==
  /\ MayAttack(from, to)
  /\ BaseTypeOf(board[from].pieces) = CANNON
  /\ from.row = to.row \/ from.col = to.col
  /\ Len(board[from].pieces) = Len(board[to].pieces)

\* A row of LineLen cells, longer than a row of the board played on (the
\* source's rows have 8 cells): a BLACK Cannon on its first cell, a RED piece
\* of any type on its last, and any of the cells between them occupied.
LineLen == 4

LineFrom == Loc(0, 0)

LineTo == Loc(0, LineLen - 1)

LineBoards ==
  LET cells == {Loc(0, c) : c \in 0 .. (LineLen - 1)}
      mid == cells \ {LineFrom, LineTo}
      piece(l, type, color, up) ==
        [pieces |-> << [id |-> l.col + 1, type |-> type, color |-> color,
                        faceUp |-> up] >>]
  IN {[l \in cells |->
         IF l = LineFrom THEN piece(l, CANNON, BLACK, TRUE)
         ELSE IF l = LineTo THEN piece(l, td, RED, TRUE)
         ELSE IF l \in occ THEN piece(l, SOLDIER, RED, FALSE)
         ELSE Null] : td \in PieceType, occ \in SUBSET mid}

C13_Geometry ==
  GoodState =>
    \A action \in MoveInputs :
      \A r \in {applyAction(gameState, action)} :
        /\ ( /\ board[action.from] # Null
             /\ ~PatternOk(board, action.from, action.to,
                           BaseTypeOf(board[action.from].pieces)) ) =>
               r.error # NoError
        /\ r.error = NoError =>
             /\ board[action.from] # Null
             /\ PatternOk(board, action.from, action.to,
                          BaseTypeOf(board[action.from].pieces))

\* a stack based on a Chariot and topped by a General may slide two cells
\* along a row, which no General may
C13_Witness ==
  /\ GoodState
  /\ \E from \in Location, to \in Location :
       /\ board[from] # Null
       /\ BaseTypeOf(board[from].pieces) = CHARIOT
       /\ getTopPiece(board[from]).type = GENERAL
       /\ from.row = to.row
       /\ Abs(from.col - to.col) = 2
       /\ applyAction(gameState,
                      MoveAction(activePlayerIndex, from, to, TO_HAND)).error = NoError

\* the pieces of a stack, each given the color color
Recolored(pieces, color) ==
  [i \in 1 .. Len(pieces) |-> [pieces[i] EXCEPT !.color = color]]

\* the boards b and c agree on every cell but from and to
SameElsewhere(b, c, from, to) ==
  \A l \in Location \ {from, to} : b[l] = c[l]

\* C14 (To-Hand capture): an accepted to-hand MOVE onto an enemy-topped stack
\* puts every piece of the destination stack into the mover's hand in the
\* mover's color, puts the mover's whole stack, order kept, on the destination
\* cell and empties the source cell; the opponent's hand and every other cell
\* stay as they were.
C14_ToHandCapture ==
  GoodState =>
    \A p \in PlayerIds, from \in Location, to \in Location :
      \A r \in {applyAction(gameState, MoveAction(p, from, to, TO_HAND))} :
        ( /\ r.error = NoError
          /\ board[to] # Null
          /\ getTopPiece(board[to]).color # players[p].color ) =>
            /\ r.players[p].hand.pieces =
                 players[p].hand.pieces \o Recolored(board[to].pieces, players[p].color)
            /\ r.players[p].color = players[p].color
            /\ r.players[1 - p] = players[1 - p]
            /\ r.board[to] = board[from]
            /\ r.board[from] = Null
            /\ SameElsewhere(r.board, board, from, to)

\* the active player's stack of two or more takes an enemy stack to hand
C14_Witness ==
  /\ GoodState
  /\ \E from \in Location, to \in Location :
       /\ MayAttack(from, to)
       /\ Len(board[from].pieces) >= 2
       /\ applyAction(gameState,
                      MoveAction(activePlayerIndex, from, to, TO_HAND)).error = NoError

\* C15 (Stack-If-Possible): a stacking MOVE onto an occupied face-up cell is
\* accepted only if canStackOn(destination, mover, destination is friendly)
\* succeeds and, for an enemy destination, the capture is eligible; when
\* canStackOn fails the MOVE is rejected and the state is left as it was; on
\* success the destination holds its pieces followed by the mover's, the
\* source is empty, and no piece changes color or goes to a hand.
C15_StackIfPossible ==
  GoodState =>
    \A p \in PlayerIds, from \in Location, to \in Location :
      ( /\ from # to
        /\ board[from] # Null
        /\ board[to] # Null
        /\ getTopPiece(board[to]).faceUp ) =>
          \A r \in {applyAction(gameState, MoveAction(p, from, to, STACK_IF_POSSIBLE))} :
            LET friendly == getTopPiece(board[to]).color = players[p].color
                check == canStackOn(board[to].pieces, board[from].pieces, friendly)
            IN /\ ~check.valid =>
                    /\ r.error # NoError
                    /\ [r EXCEPT !.error = NoError] = gameState
               /\ r.error = NoError =>
                    /\ check.valid
                    /\ ~friendly =>
                         canPieceCaptureTarget(board, from, to, board[from], board[to])
                    /\ r.board[to] =
                         [pieces |-> board[to].pieces \o board[from].pieces]
                    /\ r.board[from] = Null
                    /\ SameElsewhere(r.board, board, from, to)
                    /\ r.players = players

\* a stacking capture has just put the mover's piece on an enemy piece, which
\* keeps its color under it
C15_Witness ==
  /\ GoodState
  /\ lastAction # Null
  /\ lastAction.type = MOVE
  /\ lastAction.captureResolution = STACK_IF_POSSIBLE
  /\ board[lastAction.to] # Null
  /\ Len(board[lastAction.to].pieces) >= 2
  /\ board[lastAction.to].pieces[1].color # players[lastAction.playerId].color
  /\ getTopPiece(board[lastAction.to]).color = players[lastAction.playerId].color

C17_TurnViolation ==
  /\ GoodState =>
       \A action \in Inputs :
         \A r \in {applyAction(gameState, action)} :
           r.error = NoError =>
             /\ ~isGameOver
             /\ action.playerId = activePlayerIndex
  /\ isGameOver =>
       \A action \in Inputs :
         applyAction(gameState, action) = fail(gameState, "Game is over")

\* a finished game with a declared winner has just turned an action down
C17_Witness ==
  /\ isGameOver
  /\ winner # NoWinner
  /\ error = "Game is over"

\* C18: hidden pieces cannot be moved or targeted.  A MOVE whose source cell
\* is topped by a face-down piece, or whose occupied destination cell is
\* topped by a face-down piece, is rejected in either resolution mode, and
\* a DEPLOY onto a cell topped by a face-down piece is rejected.
HiddenTop(b, loc) ==
  /\ loc \in DOMAIN b
  /\ b[loc] # Null
  /\ ~getTopPiece(b[loc]).faceUp

C18_HiddenPieces ==
  GoodState =>
    /\ \A action \in MoveInputs :
         (HiddenTop(board, action.from) \/ HiddenTop(board, action.to)) =>
           applyAction(gameState, action).error # NoError
    /\ \A action \in DeployInputs :
         HiddenTop(board, action.deployTo) =>
           applyAction(gameState, action).error # NoError

\* a deployment onto a face-down piece has just been turned down, on a board
\* where a face-up piece of the player to move stands next to a face-down one
C18_Witness ==
  /\ error = "Cannot deploy on hidden"
  /\ \E action \in MoveInputs :
       /\ action.playerId = activePlayerIndex
       /\ applyAction(gameState, action).error = "Cannot move hidden"
  /\ \E action \in MoveInputs :
       /\ action.playerId = activePlayerIndex
       /\ applyAction(gameState, action).error =
            "Cannot interact with hidden pieces"

\* C19: color assignment.  The first accepted FLIP of a game sets
\* colorsAssigned and gives the flipping player the color of the revealed
\* piece and the other player the opposite color; every accepted FLIP turns
\* exactly one face-down top piece face-up, changes nothing else on the
\* board or in the hands, and ends the turn; once colors are assigned no
\* accepted action changes either player's color or clears colorsAssigned,
\* and the two players hold opposite colors.
Opposite(color) == IF color = RED THEN BLACK ELSE RED

Revealed(b, loc) ==
  [b EXCEPT ![loc].pieces = [@ EXCEPT ![Len(@)].faceUp = TRUE]]

PlayerColors(s) == [i \in PlayerIds |-> s.players[i].color]

C19_ColorAssignment ==
  GoodState =>
    /\ \A action \in FlipInputs :
         \A r \in {applyAction(gameState, action)} :
           r.error = NoError =>
             LET me == action.playerId
                 loc == action.flipLocation
             IN /\ HiddenTop(board, loc)
                /\ r.board = Revealed(board, loc)
                /\ \A i \in PlayerIds : r.players[i].hand = players[i].hand
                /\ r.activePlayerIndex = 1 - me
                /\ r.turnCount = turnCount + 1
                /\ r.pendingChainCapture = Null
                /\ r.colorsAssigned
                /\ IF colorsAssigned
                     THEN PlayerColors(r) = PlayerColors(gameState)
                     ELSE /\ r.players[me].color = getTopPiece(board[loc]).color
                          /\ r.players[1 - me].color =
                               Opposite(getTopPiece(board[loc]).color)
    /\ \A action \in Inputs :
         \A r \in {applyAction(gameState, action)} :
           r.error = NoError =>
             /\ colorsAssigned => r.colorsAssigned
             /\ PlayerColors(r) # PlayerColors(gameState) =>
                  action.type = FLIP /\ ~colorsAssigned
    /\ IF colorsAssigned
         THEN /\ players[0].color \in {RED, BLACK}
              /\ players[1].color = Opposite(players[0].color)
         ELSE /\ players[0].color = UNKNOWN
              /\ players[1].color = UNKNOWN
              /\ \A loc \in Location :
                   board[loc] # Null => HiddenTop(board, loc)

\* the colors were handed out earlier and a later FLIP has just been
\* accepted: the players hold opposite colors and the flipped piece shows
C19_Witness ==
  /\ GoodState
  /\ turnCount >= 2
  /\ lastAction # Null
  /\ lastAction.type = FLIP
  /\ colorsAssigned
  /\ players[0].color = BLACK
  /\ players[1].color = RED
  /\ getTopPiece(board[lastAction.flipLocation]).faceUp

\* C20: deploy resource check.  A DEPLOY of count pieces of pieceType is
\* rejected whenever the acting player's hand holds fewer than count pieces
\* of that type, or count is below 1, and the hand is then unchanged; an
\* accepted DEPLOY removes exactly count pieces of that type from the acting
\* player's hand, keeps the rest of the hand as it was, and puts exactly the
\* removed pieces on top of the destination cell.
DeployCounts == (0 - 1) .. (MaxDeploy + 1)

DeployRequests ==
  {DeployAction(p, type, count, to) :
     p \in PlayerIds, type \in PieceType, count \in DeployCounts,
     to \in Location}

HandIds(s, p) ==
  {s.players[p].hand.pieces[i].id : i \in 1 .. Len(s.players[p].hand.pieces)}

CountInHand(s, p, type) ==
  Cardinality({i \in 1 .. Len(s.players[p].hand.pieces) :
                 s.players[p].hand.pieces[i].type = type})

PiecesAt(b, loc) == IF b[loc] = Null THEN << >> ELSE b[loc].pieces

C20_DeployResources ==
  GoodState =>
    \A action \in DeployRequests :
      \A r \in {applyAction(gameState, action)} :
        LET me == action.playerId
            count == action.deployCount
            to == action.deployTo
            hand == players[me].hand.pieces
            gone == {i \in 1 .. Len(hand) : hand[i].id \notin HandIds(r, me)}
        IN /\ (CountInHand(gameState, me, action.deployType) < count
                 \/ count < 1) =>
                /\ r.error # NoError
                /\ r.players[me].hand = players[me].hand
           /\ r.error = NoError =>
                /\ Cardinality(gone) = count
                /\ \A i \in gone : hand[i].type = action.deployType
                /\ r.players[me].hand.pieces =
                     KeepIdx(hand, (1 .. Len(hand)) \ gone)
                /\ r.players[1 - me] = players[1 - me]
                /\ r.board[to] # Null
                /\ r.board[to].pieces =
                     PiecesAt(board, to) \o KeepIdx(hand, gone)
                /\ \A l \in Location \ {to} : r.board[l] = board[l]

\* a DEPLOY has just been accepted from a hand that held other pieces too:
\* the cell it names is topped by a piece of the deployed type
C20_Witness ==
  /\ GoodState
  /\ lastAction # Null
  /\ lastAction.type = DEPLOY
  /\ getTopPiece(board[lastAction.deployTo]).type = lastAction.deployType
  /\ players[lastAction.playerId].hand.pieces # << >>

\* C21 (canStackOn decision): on a non-empty target, canStackOn is valid
\* exactly when (checkColor is false or the tops of target and incoming share
\* a color) and (the target's base type is General or every incoming piece is
\* a General or of the target's base type) and the merged stack is no longer
\* than the limit of the merged stack's base type; on an empty target it is
\* always valid.  So any piece may go on an all-General stack and a third
\* General on two Generals is refused.
MaxRun == 12

StackTypes == {GENERAL, SOLDIER, CHARIOT}

\* a stack written bottom-up: the head, then n pieces of one type; the top
\* piece has the given color and all pieces under it are RED
StackOf(head, type, n, topColor) ==
  LET types == head \o [i \in 1 .. n |-> type]
  IN [i \in 1 .. Len(types) |->
        [id |-> i, type |-> types[i],
         color |-> IF i = Len(types) THEN topColor ELSE RED,
         faceUp |-> TRUE]]

StackHeads == {<< >>} \cup {<<t>> : t \in PieceType}

TargetStacks ==
  {StackOf(head, type, n, color) :
     head \in StackHeads, type \in StackTypes, n \in 0 .. MaxRun,
     color \in {RED, BLACK}}

IncomingStacks ==
  {StackOf(head, type, 1, color) :
     head \in StackHeads, type \in PieceType, color \in {RED, BLACK}}

StackRule(target, incoming, checkColor) ==
  \/ Len(target) = 0
  \/ /\ checkColor => target[Len(target)].color = incoming[Len(incoming)].color
     /\ \/ getStackBaseType(target) = GENERAL
        \/ \A i \in 1 .. Len(incoming) :
             incoming[i].type \in {GENERAL, getStackBaseType(target)}
     /\ Len(target) + Len(incoming) <=
          STACK_LIMITS[getStackBaseType(target \o incoming)]

AllGeneral(pieces) == \A i \in 1 .. Len(pieces) : pieces[i].type = GENERAL

C21_CanStackOn ==
  /\ GoodState =>
       \A from \in Location, to \in Location, checkColor \in BOOLEAN :
         (board[from] # Null /\ board[to] # Null) =>
           (canStackOn(board[to].pieces, board[from].pieces, checkColor).valid
              <=> StackRule(board[to].pieces, board[from].pieces, checkColor))
  /\ turnCount = 0 =>
       \A target \in TargetStacks, incoming \in IncomingStacks,
          checkColor \in BOOLEAN :
         /\ canStackOn(target, incoming, checkColor).valid
              <=> StackRule(target, incoming, checkColor)
         /\ (Len(target) \in 1 .. 2 /\ AllGeneral(target)
               /\ Len(incoming) = 1 /\ incoming[1].type # GENERAL) =>
              canStackOn(target, incoming, FALSE).valid
         /\ (Len(target) = 2 /\ AllGeneral(target) /\ AllGeneral(incoming)) =>
              ~canStackOn(target, incoming, checkColor).valid

\* a stacking MOVE has just put a piece that is no General on a lone General
C21_Witness ==
  /\ GoodState
  /\ lastAction # Null
  /\ lastAction.type = MOVE
  /\ lastAction.captureResolution = STACK_IF_POSSIBLE
  /\ board[lastAction.to] # Null
  /\ Len(board[lastAction.to].pieces) = 2
  /\ board[lastAction.to].pieces[1].type = GENERAL
  /\ board[lastAction.to].pieces[2].type # GENERAL

\* C22 (Enumerator while chaining): with pendingChainCapture = loc,
\* getLegalActions for the active player returns PASS and a MOVE from loc to
\* every chain-eligible cell (another cell with a face-up stack, in a valid
\* pattern, an enemy-topped one also weight/rank-eligible, a friendly-topped
\* one always), and nothing else: no FLIP, DEPLOY or RETRIEVE and no MOVE from
\* another cell or to a cell that is not chain-eligible.
ChainEligible(s, p, loc, t) ==
  LET b == s.board
      atk == b[loc].pieces
      def == b[t].pieces
      base == getStackBaseType(atk)
      pattern == getMovePatternDetails(b, loc, t, base)
  IN /\ pattern.valid
     /\ \/ def[Len(def)].color = s.players[p].color
        \/ Len(atk) > Len(def)
        \/ /\ Len(atk) = Len(def)
           /\ \/ base = CANNON /\ pattern.screens = 1
              \/ RankEligible(atk[Len(atk)].type, def[Len(def)].type)

ChainCells(s, p, loc) ==
  {t \in Location \ {loc} :
     /\ s.board[t] # Null
     /\ getTopPiece(s.board[t]).faceUp
     /\ ChainEligible(s, p, loc, t)}

C22_ChainEnumerator ==
  (GoodState /\ pendingChainCapture # Null) =>
    \A legal \in {getLegalActions(gameState, activePlayerIndex)} :
      LET loc == pendingChainCapture
          cells == ChainCells(gameState, activePlayerIndex, loc)
      IN /\ PassAction(activePlayerIndex) \in legal
         /\ \A t \in cells :
              \E a \in legal : a.type = MOVE /\ a.from = loc /\ a.to = t
         /\ \A a \in legal :
              /\ a.playerId = activePlayerIndex
              /\ \/ a = PassAction(activePlayerIndex)
                 \/ a.type = MOVE /\ a.from = loc /\ a.to \in cells
         /\ hasChainOptions(gameState, loc, players[activePlayerIndex].color)
              <=> cells # {}

\* a chain is pending on a cell that has both an enemy-topped and a
\* friendly-topped chain-eligible cell
C22_Witness ==
  /\ GoodState
  /\ pendingChainCapture # Null
  /\ \E t \in ChainCells(gameState, activePlayerIndex, pendingChainCapture) :
       getTopPiece(board[t]).color = players[activePlayerIndex].color
  /\ \E t \in ChainCells(gameState, activePlayerIndex, pendingChainCapture) :
       getTopPiece(board[t]).color # players[activePlayerIndex].color

\* C23 (Enumerator DEPLOY coverage): with no chain pending, getLegalActions
\* holds a DEPLOY candidate for each piece type in the player's hand onto
\* every empty cell and onto every face-up stack of the player's own on which
\* canStackOn(stack, [piece], checkColor = true) allows it.
HandPiecesOf(s, p, type) ==
  {s.players[p].hand.pieces[i] :
     i \in {i \in 1 .. Len(s.players[p].hand.pieces) :
              s.players[p].hand.pieces[i].type = type}}

DeployCells(s, p, type) ==
  {l \in Location :
     \/ s.board[l] = Null
     \/ /\ s.board[l] # Null
        /\ getTopPiece(s.board[l]).faceUp
        /\ getTopPiece(s.board[l]).color = s.players[p].color
        /\ \E piece \in HandPiecesOf(s, p, type) :
             canStackOn(s.board[l].pieces, <<piece>>, TRUE).valid}

C23_DeployCoverage ==
  (GoodState /\ ~isGameOver /\ pendingChainCapture = Null) =>
    \A legal \in {getLegalActions(gameState, activePlayerIndex)} :
      \A type \in PieceType :
        HandPiecesOf(gameState, activePlayerIndex, type) # {} =>
          \A l \in DeployCells(gameState, activePlayerIndex, type) :
            \E a \in legal :
              /\ a.type = DEPLOY
              /\ a.playerId = activePlayerIndex
              /\ a.deployType = type
              /\ a.deployTo = l

\* C24 (Enumerator soundness): in every reachable state whose game is not
\* over, every action getLegalActions returns for the active player is
\* accepted by applyAction on that state: FLIP, RETRIEVE, DEPLOY, MOVE in
\* both resolution modes, and PASS.
C24_EnumeratorSound ==
  (GoodState /\ ~isGameOver) =>
    \A a \in getLegalActions(gameState, activePlayerIndex) :
      applyAction(gameState, a).error = NoError

\* the list for the player to move offers FLIP, RETRIEVE, DEPLOY and MOVE in
\* both modes at once
C24_Witness ==
  /\ GoodState
  /\ ~isGameOver
  /\ pendingChainCapture = Null
  /\ \A legal \in {getLegalActions(gameState, activePlayerIndex)} :
       /\ \E a \in legal : a.type = FLIP
       /\ \E a \in legal : a.type = RETRIEVE
       /\ \E a \in legal : a.type = DEPLOY
       /\ \E a \in legal : a.type = MOVE /\ a.captureResolution = TO_HAND
       /\ \E a \in legal :
            a.type = MOVE /\ a.captureResolution = STACK_IF_POSSIBLE

\* C25 (Enumerator existence contract): when getLegalActions returns the
\* empty list for the player to move, applyAction rejects every action of
\* that player, RETRIEVE with any id list and DEPLOY onto own stacks
\* included.  The states looked at are the reachable states whose game is not
\* over and the states on which the engine ran the enumerator and declared a
\* stalemate (the state it held then being the one returned but for
\* isGameOver and winner).
TopsFaceUp(b) ==
  \A l \in Location : b[l] # Null => getTopPiece(b[l]).faceUp

ShowsStack(s, p) ==
  \E l \in Location :
    /\ s.board[l] # Null
    /\ getTopPiece(s.board[l]).faceUp
    /\ getTopPiece(s.board[l]).color = s.players[p].color

\* the game of state s ended because the enumerator found nothing for the
\* player to move
StalemateDeclared(s) ==
  /\ s.isGameOver
  /\ s.error = NoError
  /\ ~(TopsFaceUp(s.board) /\ ~ShowsStack(s, s.activePlayerIndex))

AsEnumerated(s) == [s EXCEPT !.isGameOver = FALSE, !.winner = NoWinner]

RequestsOf(p) ==
  {a \in FlipInputs \cup MoveInputs \cup PairDeployInputs \cup RetrieveInputs
         \cup PassInputs : a.playerId = p}

C25_EnumeratorExistence ==
  (GoodState /\ (~isGameOver \/ StalemateDeclared(gameState))) =>
    \A s \in {AsEnumerated(gameState)} :
      getLegalActions(s, activePlayerIndex) = {} =>
        \A a \in RequestsOf(activePlayerIndex) :
          applyAction(s, a).error # NoError

\* C26 (Hand color invariant): in every reachable state every piece in a
\* player's hand has that player's color, whichever action put it there: a
\* capture to hand, or a RETRIEVE of pieces lying under the top of a pile
\* made by a stacking capture.
C26_HandColor ==
  GoodState =>
    \A p \in PlayerIds :
      \A i \in 1 .. Len(players[p].hand.pieces) :
        players[p].hand.pieces[i].color = players[p].color

\* C27 (Ownership after RETRIEVE and DEPLOY): after an accepted RETRIEVE by
\* player p the stack left on the source cell is topped by a piece of p's
\* color, and after an accepted DEPLOY by p the destination cell is topped by
\* a piece of p's color.
C27_Ownership ==
  GoodState =>
    /\ \A action \in RetrieveInputs :
         \A r \in {applyAction(gameState, action)} :
           r.error = NoError =>
             /\ r.board[action.retrieveFrom] # Null
             /\ getTopPiece(r.board[action.retrieveFrom]).color =
                  players[action.playerId].color
    /\ \A action \in DeployInputs :
         \A r \in {applyAction(gameState, action)} :
           r.error = NoError =>
             /\ r.board[action.deployTo] # Null
             /\ getTopPiece(r.board[action.deployTo]).color =
                  players[action.playerId].color

\* C28 (Hidden information does not influence legality): two reachable states
\* that differ only in the type or color of face-down pieces have every
\* action accepted in both or rejected in both; no MOVE, DEPLOY, RETRIEVE or
\* PASS tells a hidden piece's color.
\* The cards some deal of the lone-piece games puts where the deck of state
\* s put the piece with identifier id.
CardsDealt(id) == {deck[id] : deck \in {d \in LoneDeals : id <= Len(d)}}

\* state s with the face-down piece on cell l dealt as card instead: the
\* state the same calls produce from the deal that differs in that card
DealtAs(s, l, card) ==
  [s EXCEPT !.board[l].pieces[1].type = card.type,
            !.board[l].pieces[1].color = card.color]

HiddenCells(s) ==
  {l \in Location :
     /\ s.board[l] # Null
     /\ Len(s.board[l].pieces) = 1
     /\ ~s.board[l].pieces[1].faceUp}

Accepts(s, a) == applyAction(s, a).error = NoError

C28_HiddenInformation ==
  GoodState =>
    \A l \in HiddenCells(gameState) :
      \A card \in CardsDealt(board[l].pieces[1].id) :
        \A twin \in {DealtAs(gameState, l, card)} :
          \A a \in RequestsOf(0) \cup RequestsOf(1) :
            Accepts(gameState, a) <=> Accepts(twin, a)

\* C29 (Chain termination): every accepted MOVE made while a chain is
\* pending, and every accepted MOVE that enters a chain, leaves exactly one
\* occupied cell fewer; a pending chain accepts nothing but such a MOVE by
\* the chaining player or that player's PASS, which clears the chain and
\* passes the turn; and a pending chain has at least two occupied cells.  So
\* a run of consecutive accepted actions of one player is no longer than the
\* number of occupied cells, and every chain ends after finitely many
\* accepted actions.
Occupied(b) == Cardinality({l \in Location : b[l] # Null})

C29_ChainTermination ==
  GoodState =>
    /\ \A action \in MoveInputs :
         \A r \in {applyAction(gameState, action)} :
           (r.error = NoError
              /\ (pendingChainCapture # Null \/ r.pendingChainCapture # Null)) =>
             Occupied(r.board) = Occupied(board) - 1
    /\ pendingChainCapture # Null =>
         /\ Occupied(board) >= 2
         /\ \A action \in Inputs :
              \A r \in {applyAction(gameState, action)} :
                r.error = NoError =>
                  /\ action.playerId = activePlayerIndex
                  /\ action.type \in {MOVE, PASS}
                  /\ action.type = PASS =>
                       /\ r.pendingChainCapture = Null
                       /\ r.activePlayerIndex = 1 - activePlayerIndex
                  /\ r.pendingChainCapture = Null <=>
                       r.activePlayerIndex = 1 - activePlayerIndex

\* a chain is pending and a MOVE of the chaining piece is accepted that keeps
\* the chain going
C29_Witness ==
  /\ GoodState
  /\ pendingChainCapture # Null
  /\ \E action \in MoveInputs :
       \E r \in {applyAction(gameState, action)} :
         /\ r.error = NoError
         /\ r.pendingChainCapture # Null
         /\ r.activePlayerIndex = activePlayerIndex
         /\ Occupied(r.board) = Occupied(board) - 1

\* C30 (Chain location invariant): whenever pendingChainCapture = loc, the
\* game is not over, cell loc holds a stack whose top piece is face-up and of
\* the active player's color, and some cell is chain-eligible from loc, so
\* getLegalActions returns PASS and at least one MOVE.
C30_ChainLocation ==
  (GoodState /\ pendingChainCapture # Null) =>
    LET loc == pendingChainCapture
    IN /\ ~isGameOver
       /\ loc \in Location
       /\ board[loc] # Null
       /\ getTopPiece(board[loc]).faceUp
       /\ getTopPiece(board[loc]).color = players[activePlayerIndex].color
       /\ ChainCells(gameState, activePlayerIndex, loc) # {}
       /\ \A legal \in {getLegalActions(gameState, activePlayerIndex)} :
            /\ PassAction(activePlayerIndex) \in legal
            /\ \E a \in legal : a.type = MOVE /\ a.from = loc

\* a chain is pending on a pile of two pieces made by a stacking move
C30_Witness ==
  /\ GoodState
  /\ pendingChainCapture # Null
  /\ board[pendingChainCapture] # Null
  /\ Len(board[pendingChainCapture].pieces) = 2
  /\ lastAction.type = MOVE
  /\ lastAction.captureResolution = STACK_IF_POSSIBLE
  /\ lastAction.to = pendingChainCapture

\* the locations next to the board: one row or one column beyond an edge
OffBoard ==
  [row : (0 - 1) .. Rows, col : (0 - 1) .. Cols] \ Location

\* the call returned a state that is the input state but for an error
RejectedByValue(s, r) ==
  /\ r.error # NoError
  /\ r.error # TypeError
  /\ r = fail(s, r.error)

\* C31 (Errors are values for off-board locations): a FLIP or a RETRIEVE
\* whose location has a row or a column outside the board is rejected through
\* the error field of the returned state, which is otherwise the input state,
\* exactly as a MOVE or a DEPLOY with such coordinates is; applyAction never
\* ends in a thrown exception.
C31_OffBoardErrors ==
  GoodState =>
    \A p \in PlayerIds, loc \in OffBoard :
      /\ \A on \in Location, res \in Resolutions :
           /\ RejectedByValue(gameState,
                applyAction(gameState, MoveAction(p, loc, on, res)))
           /\ RejectedByValue(gameState,
                applyAction(gameState, MoveAction(p, on, loc, res)))
      /\ \A type \in DeckTypes :
           RejectedByValue(gameState,
             applyAction(gameState, DeployAction(p, type, 1, loc)))
      /\ RejectedByValue(gameState,
           applyAction(gameState, FlipAction(p, loc)))
      /\ \A ids \in {<< >>, <<1>>} :
           RejectedByValue(gameState,
             applyAction(gameState, RetrieveAction(p, loc, ids)))

\* the pieces of a sequence whose ids are in S, and the others, in order
Listed(pieces, S) ==
  KeepIdx(pieces, {i \in 1 .. Len(pieces) : pieces[i].id \in S})

Unlisted(pieces, S) ==
  KeepIdx(pieces, {i \in 1 .. Len(pieces) : pieces[i].id \notin S})

IdsOf(seq) == {seq[i] : i \in 1 .. Len(seq)}

\* C32 (RETRIEVE rules): a RETRIEVE is accepted only if no chain is pending,
\* the source cell holds a stack whose top piece has the acting player's
\* color, every listed id belongs to that stack and at least one piece would
\* remain; an accepted RETRIEVE moves exactly the listed pieces into the
\* acting player's hand, keeps the remaining pieces in their bottom-to-top
\* order, leaves every other cell and the other hand alone, and ends the turn.
C32_RetrieveRules ==
  GoodState =>
    \A action \in RetrieveInputs :
      \A r \in {applyAction(gameState, action)} :
        LET me == action.playerId
            from == action.retrieveFrom
            ids == IdsOf(action.retrievePieceIds)
            old == PiecesAt(board, from)
        IN r.error = NoError =>
             /\ pendingChainCapture = Null
             /\ board[from] # Null
             /\ old[Len(old)].color = players[me].color
             /\ ids \subseteq {old[i].id : i \in 1 .. Len(old)}
             /\ Len(old) - Cardinality(ids) >= 1
             /\ r.players[me].hand.pieces =
                  players[me].hand.pieces \o Listed(old, ids)
             /\ r.board[from] # Null
             /\ r.board[from].pieces = Unlisted(old, ids)
             /\ \A l \in Location \ {from} : r.board[l] = board[l]
             /\ r.players[1 - me].hand = players[1 - me].hand
             /\ r.activePlayerIndex = 1 - me
             /\ r.turnCount = turnCount + 1
             /\ r.pendingChainCapture = Null

\* a piece other than the top one has been taken out of a pile
C32_Witness ==
  /\ GoodState
  /\ \E action \in RetrieveInputs :
       /\ action.retrievePieceIds # << >>
       /\ board[action.retrieveFrom] # Null
       /\ Len(board[action.retrieveFrom].pieces) >= 2
       /\ board[action.retrieveFrom].pieces[1].id = action.retrievePieceIds[1]
       /\ applyAction(gameState, action).error = NoError

\* C33 (Cannon on an empty destination): a MOVE of a Cannon-based stack onto
\* an empty cell is accepted only when no occupied cell lies strictly between
\* source and destination; with exactly one occupied cell between them the
\* move is rejected, though the same pattern is valid for an occupied
\* destination.
C33_CannonEmptyDestination ==
  GoodState =>
    \A action \in MoveInputs :
      LET from == action.from
          to == action.to
          between == Cardinality(OccupiedBetween(board, from, to))
      IN (/\ board[from] # Null
          /\ BaseTypeOf(board[from].pieces) = CANNON
          /\ board[to] = Null) =>
           \A r \in {applyAction(gameState, action)} :
             /\ r.error = NoError => between = 0
             /\ between = 1 => /\ r.error # NoError
                               /\ PatternOk(board, from, to, CANNON)

\* the player to move sends its face-up Cannon over one screen to an empty
\* cell and is refused for the missing target
C33_Witness ==
  /\ GoodState
  /\ ~isGameOver
  /\ \E action \in MoveInputs :
       /\ action.playerId = activePlayerIndex
       /\ board[action.from] # Null
       /\ BaseTypeOf(board[action.from].pieces) = CANNON
       /\ board[action.to] = Null
       /\ Cardinality(OccupiedBetween(board, action.from, action.to)) = 1
       /\ applyAction(gameState, action).error = "Cannon needs a target to jump"

\* C34 (Plain move effect): an accepted MOVE onto an empty cell relocates the
\* entire source stack to the destination with its pieces, their order, colors
\* and face-up flags unchanged, leaves the source cell empty, changes no other
\* cell and neither hand, never sets a pending chain, and ends the turn.
C34_PlainMove ==
  GoodState =>
    \A action \in MoveInputs :
      board[action.to] = Null =>
        \A r \in {applyAction(gameState, action)} :
          r.error = NoError =>
            /\ board[action.from] # Null
            /\ r.board[action.to] = board[action.from]
            /\ r.board[action.from] = Null
            /\ \A l \in Location \ {action.from, action.to} : r.board[l] = board[l]
            /\ \A p \in PlayerIds : r.players[p].hand = players[p].hand
            /\ r.pendingChainCapture = Null
            /\ r.activePlayerIndex = 1 - action.playerId
            /\ r.turnCount = turnCount + 1

\* a pile of two or more pieces moves onto an empty cell
C34_Witness ==
  /\ GoodState
  /\ \E action \in MoveInputs :
       /\ board[action.to] = Null
       /\ board[action.from] # Null
       /\ Len(board[action.from].pieces) >= 2
       /\ applyAction(gameState, action).error = NoError

\* the ids of the face-up pieces of state s, on the board and in the hands
FaceUpIds(s) ==
  UNION {{s.board[l].pieces[i].id :
            i \in {k \in 1 .. Len(PiecesAt(s.board, l)) : s.board[l].pieces[k].faceUp}} :
           l \in Location}
  \cup
  UNION {{s.players[p].hand.pieces[i].id :
            i \in {k \in 1 .. Len(s.players[p].hand.pieces) :
                     s.players[p].hand.pieces[k].faceUp}} :
           p \in PlayerIds}

\* C35 (Face-down pieces): every face-down piece is the only piece of its
\* stack on the board; every piece in a hand and every piece of a stack of two
\* or more is face-up; and no call of applyAction turns a face-up piece
\* face-down.
C35_FaceDownPieces ==
  /\ [](/\ \A l \in Location :
            board[l] # Null /\ Len(board[l].pieces) >= 2 =>
              \A i \in 1 .. Len(board[l].pieces) : board[l].pieces[i].faceUp
        /\ \A p \in PlayerIds :
             \A i \in 1 .. Len(players[p].hand.pieces) :
               players[p].hand.pieces[i].faceUp)
  /\ [][FaceUpIds(gameState) \subseteq FaceUpIds(gameState')]_vars

\* a pile, a piece in a hand and a face-down piece at once
C35_Witness ==
  /\ GoodState
  /\ lastAction # Null
  /\ \E l \in Location : board[l] # Null /\ Len(board[l].pieces) >= 2
  /\ \E p \in PlayerIds : players[p].hand.pieces # << >>
  /\ \E l \in Location : HiddenTop(board, l)

\* the types of the pieces of a stack that are no Generals
OtherTypes(pieces) ==
  {pieces[i].type : i \in 1 .. Len(pieces)} \ {GENERAL}

\* C36 (Stack composition): no cell holds an empty stack, and every stack
\* consists of Generals plus pieces of at most one other type.
C36_StackComposition ==
  \A l \in Location :
    board[l] # Null =>
      /\ Len(board[l].pieces) >= 1
      /\ Cardinality(OtherTypes(board[l].pieces)) <= 1

\* a pile that holds a General and a piece of one other type
C36_Witness ==
  /\ GoodState
  /\ lastAction # Null
  /\ \E l \in Location :
       /\ board[l] # Null
       /\ Len(board[l].pieces) >= 2
       /\ \E i \in 1 .. Len(board[l].pieces) : board[l].pieces[i].type = GENERAL
       /\ Cardinality(OtherTypes(board[l].pieces)) = 1

\* C37 (Game over): isGameOver holds exactly when winner is set; in a finished
\* game the winner is player 0 or 1 and is not the player at activePlayerIndex,
\* no chain is pending, and no call of applyAction makes isGameOver false
\* again.
C37_GameOver ==
  /\ isGameOver <=> winner # NoWinner
  /\ isGameOver =>
       /\ winner \in {<<p>> : p \in PlayerIds}
       /\ winner # <<activePlayerIndex>>
       /\ pendingChainCapture = Null
       /\ \A action \in Inputs : applyAction(gameState, action).isGameOver

\* a finished game on which the winner's next call is turned down
C37_Witness ==
  /\ GoodState
  /\ isGameOver
  /\ lastAction # Null
  /\ \E action \in Inputs :
       /\ <<action.playerId>> = winner
       /\ applyAction(gameState, action).error = "Game is over"

\* C38 (Before colors are assigned): in every reachable state with
\* colorsAssigned = false every piece of the deal lies face-down on the board,
\* both hands are empty, both players' colors are unset, and every MOVE,
\* DEPLOY, RETRIEVE and PASS is rejected; the first accepted action of a game
\* is a FLIP by player 0: as long as no action has been accepted colors are
\* unassigned, and then only a FLIP by player 0 is accepted.
C38_BeforeColors ==
  /\ lastAction = Null => ~colorsAssigned
  /\ ~colorsAssigned =>
       /\ {piece.id : piece \in PiecesOnBoard} = PieceIds
       /\ \A piece \in PiecesOnBoard : ~piece.faceUp
       /\ \A p \in PlayerIds :
            /\ players[p].hand.pieces = << >>
            /\ players[p].color = UNKNOWN
       /\ \A action \in Inputs :
            applyAction(gameState, action).error = NoError =>
              /\ action.type = FLIP
              /\ action.playerId = 0

\* a RETRIEVE tried before the first flip has been turned down
C38_Witness ==
  /\ ~colorsAssigned
  /\ lastAction = Null
  /\ error = "Not your stack"

\* player p holds a piece
HoldsPieces(p) == players[p].hand.pieces # << >>

\* some DEPLOY of player p is accepted
CanDeploy(p) ==
  \E type \in PieceType, to \in Location :
    applyAction(gameState, DeployAction(p, type, 1, to)).error = NoError

\* C39 as stated (A player holding pieces can always deploy): in every
\* reachable state, if any hand is non-empty then at least one cell is empty,
\* and the player to move, holding pieces and with no chain pending, has an
\* accepted DEPLOY and a non-empty getLegalActions.
C39_DeployAlwaysOpenAnyState ==
  GoodState =>
    /\ (\E p \in PlayerIds : HoldsPieces(p)) => \E l \in Location : board[l] = Null
    /\ (HoldsPieces(activePlayerIndex) /\ pendingChainCapture = Null) =>
         /\ CanDeploy(activePlayerIndex)
         /\ getLegalActions(gameState, activePlayerIndex) # {}

\* C39 (A player holding pieces can always deploy), amended: in every
\* reachable state, if any hand is non-empty then at least one cell is empty,
\* and getLegalActions is non-empty for the player to move who holds pieces
\* with no chain pending; as long as the game is not over that player has an
\* accepted DEPLOY.  A finished game accepts nothing, and a player who holds
\* pieces but owns no stack on an all face-up board has lost by elimination.
C39_DeployAlwaysOpen ==
  GoodState =>
    /\ (\E p \in PlayerIds : HoldsPieces(p)) => \E l \in Location : board[l] = Null
    /\ (HoldsPieces(activePlayerIndex) /\ pendingChainCapture = Null) =>
         /\ ~isGameOver => CanDeploy(activePlayerIndex)
         /\ getLegalActions(gameState, activePlayerIndex) # {}

\* the player to move of a game in progress holds pieces, no chain pending,
\* and every legal action it has is a DEPLOY
C39_Witness ==
  /\ GoodState
  /\ ~isGameOver
  /\ pendingChainCapture = Null
  /\ HoldsPieces(activePlayerIndex)
  /\ CanDeploy(activePlayerIndex)
  /\ \A a \in getLegalActions(gameState, activePlayerIndex) : a.type = DEPLOY

\* C40 (To-hand acceptance subsumes stack acceptance): in every state and for
\* every player, source and destination, if the MOVE with resolution
\* STACK_IF_POSSIBLE is accepted then the same MOVE with TO_HAND, and with no
\* resolution given (the default), is accepted as well.
C40_ToHandSubsumesStack ==
  GoodState =>
    \A p \in PlayerIds, from \in Location, to \in Location :
      applyAction(gameState, MoveAction(p, from, to, STACK_IF_POSSIBLE)).error = NoError =>
        /\ applyAction(gameState, MoveAction(p, from, to, TO_HAND)).error = NoError
        /\ applyAction(gameState, MoveAction(p, from, to, UndefinedStr)).error = NoError

\* a stack move onto an occupied cell is accepted, and so is its to-hand
\* form, while elsewhere on the board a to-hand move is accepted whose stack
\* form is not
C40_Witness ==
  /\ GoodState
  /\ \E from \in Location, to \in Location :
       /\ board[to] # Null
       /\ applyAction(gameState,
            MoveAction(activePlayerIndex, from, to, STACK_IF_POSSIBLE)).error = NoError
       /\ applyAction(gameState,
            MoveAction(activePlayerIndex, from, to, TO_HAND)).error = NoError
  /\ \E from \in Location, to \in Location :
       /\ applyAction(gameState,
            MoveAction(activePlayerIndex, from, to, TO_HAND)).error = NoError
       /\ applyAction(gameState,
            MoveAction(activePlayerIndex, from, to, STACK_IF_POSSIBLE)).error # NoError

====
